---- MODULE Spec2Model ----
(***************************************************************************)
(* Model of the product search service of server.js: the search request   *)
(* handler, the remote resolution pipeline searchRemoteProducts with its  *)
(* verification, Bing, sitemap and enrichment stages, the two caches and  *)
(* the local catalog matcher.                                             *)
(*                                                                        *)
(* Strings are sequences of one-character strings, so that toLowerCase,   *)
(* includes, length and split are computed.  A URL of www.melaleuca.com   *)
(* is the sequence of its path segments; the empty URL '' is <<>>.        *)
(* Time is counted in ticks of three hours (SITEMAP_CACHE_TTL_MS, six     *)
(* hours, is two ticks); the environment-configured durations are set in  *)
(* ticks as well.                                                         *)
(***************************************************************************)
EXTENDS Integers, Sequences, FiniteSets, TLC

(***************************************************************************)
(* Strings                                                                 *)
(***************************************************************************)
UpperChars ==
  <<"A","B","C","D","E","F","G","H","I","J","K","L","M",
    "N","O","P","Q","R","S","T","U","V","W","X","Y","Z">>

LowerChars ==
  <<"a","b","c","d","e","f","g","h","i","j","k","l","m",
    "n","o","p","q","r","s","t","u","v","w","x","y","z">>

Digits ==
  {"0","1","2","3","4","5","6","7","8","9"}

LowerChar ==
  [c \in {UpperChars[i] : i \in 1..26} \cup {LowerChars[i] : i \in 1..26} \cup Digits \cup {" ", "-", ".", "{}"} |->
     IF \E i \in 1..26 : UpperChars[i] = c
       THEN LowerChars[CHOOSE i \in 1..26 : UpperChars[i] = c]
       ELSE c]

\* String.prototype.toLowerCase
ToLower(s) ==
  [i \in 1..Len(s) |-> LowerChar[s[i]]]

\* String.prototype.includes
Includes(s, t) ==
  \E i \in 0..(Len(s) - Len(t)) : SubSeq(s, i + 1, i + Len(t)) = t

\* /\d/.test(seg)
HasDigit(s) ==
  \E i \in 1..Len(s) : s[i] \in Digits

RECURSIVE SplitFrom(_, _, _)
\* the maximal runs of [a-z0-9] of s from position i on, cur being the run
\* under construction
SplitFrom(s, i, cur) ==
  IF i > Len(s)
    THEN (IF cur = <<>> THEN <<>> ELSE <<cur>>)
    ELSE IF s[i] \in Digits \/ \E k \in 1..26 : LowerChars[k] = s[i]
      THEN SplitFrom(s, i + 1, Append(cur, s[i]))
      ELSE (IF cur = <<>> THEN <<>> ELSE <<cur>>) \o SplitFrom(s, i + 1, <<>>)

\* s.split(/[^a-z0-9]+/).filter(Boolean)
Tokens(s) ==
  SplitFrom(s, 1, <<>>)

(***************************************************************************)
(* Sequences                                                               *)
(***************************************************************************)
\* Array.prototype.slice(0, n) for a number n >= 0
Slice(s, n) ==
  SubSeq(s, 1, IF n < Len(s) THEN n ELSE Len(s))

Max(a, b) ==
  IF a >= b THEN a ELSE b

Min(a, b) ==
  IF a <= b THEN a ELSE b

Range(s) ==
  {s[i] : i \in 1..Len(s)}

\* position of x in sorted: after every element that does not sort after x;
\* cmp[<<a, b>>] is the comparison function's result for (a, b)
RECURSIVE InsertSorted(_, _, _)
InsertSorted(x, sorted, cmp) ==
  IF sorted = <<>> THEN <<x>>
  ELSE IF cmp[<<sorted[Len(sorted)], x>>] <= 0
    THEN Append(sorted, x)
    ELSE Append(InsertSorted(x, SubSeq(sorted, 1, Len(sorted) - 1), cmp),
                sorted[Len(sorted)])

RECURSIVE SortFrom(_, _, _, _)
SortFrom(s, i, acc, cmp) ==
  IF i > Len(s) THEN acc
  ELSE SortFrom(s, i + 1, InsertSorted(s[i], acc, cmp), cmp)

\* Array.prototype.sort(cmp) on a copy: stable
StableSort(s, cmp) ==
  SortFrom(s, 1, <<>>, cmp)

(***************************************************************************)
(* URL classifier                                                          *)
(***************************************************************************)
Marker ==
  <<"p","r","o","d","u","c","t","s","t","o","r","e">>

\* the alternatives of /(product|detail|item|showdetails)/i
Keywords ==
  << <<"p","r","o","d","u","c","t">>,
     <<"d","e","t","a","i","l">>,
     <<"i","t","e","m">>,
     <<"s","h","o","w","d","e","t","a","i","l","s">> >>

STOPWORDS ==
  { <<"r","3">>,
    <<"s","u","p","p","l","e","m","e","n","t","s">>,
    <<"c","l","e","a","n","i","n","g","-","a","n","d","-","l","a","u","n","d","r","y">>,
    <<"a","l","l","-","c","l","e","a","n","i","n","g","-","a","n","d","-","l","a","u","n","d","r","y">>,
    <<"p","e","r","s","o","n","a","l","-","c","a","r","e">>,
    <<"h","o","m","e","-","c","a","r","e">>,
    <<"h","o","m","e","-","c","l","e","a","n","i","n","g">>,
    <<"l","a","u","n","d","r","y">>,
    <<"s","k","i","n","c","a","r","e">>,
    <<"s","k","i","n","-","c","a","r","e">>,
    <<"n","u","t","r","i","t","i","o","n">>,
    <<"p","h","a","r","m","a","c","y">>,
    <<"b","e","a","u","t","y">>,
    <<"b","a","t","h","-","a","n","d","-","b","o","d","y">>,
    <<"h","o","m","e">>,
    <<"s","h","o","p","-","a","l","l">>,
    <<"s","h","o","p">>,
    <<"c","a","t","e","g","o","r","i","e","s">>,
    <<"g","i","f","t","s">>,
    <<"c","l","e","a","r","a","n","c","e">>,
    <<"n","e","w","-","p","r","o","d","u","c","t","s">>,
    <<"p","r","o","d","u","c","t","-","s","t","o","r","e">>,
    <<"p","r","o","d","u","c","t","s","t","o","r","e">>,
    <<"h","e","a","l","t","h","y","-","f","o","o","d","s","-","a","n","d","-","d","r","i","n","k","s">>,
    <<"c","o","l","o","r","-","c","o","s","m","e","t","i","c","s">>,
    <<"a","c","n","e","-","p","r","e","v","e","n","t","i","o","n">>,
    <<"p","r","e","m","i","u","m","-","s","k","i","n","-","c","a","r","e">>,
    <<"h","a","n","d","-","s","o","a","p","-","s","a","n","i","t","i","z","e","r","s">>,
    <<"h","e","a","l","t","h","y","-","w","e","i","g","h","t","-","p","r","o","t","e","i","n">>,
    <<"h","e","a","l","t","h","y","-","s","n","a","c","k","s">>,
    <<"b","a","k","i","n","g","-","m","i","x","e","s">>,
    <<"o","u","t","l","e","t","-","s","t","o","r","e">>,
    <<"e","x","t","r","a","-","s","a","v","i","n","g","s">>,
    <<"b","e","a","u","t","y","-","s","p","e","c","i","a","l","s">>,
    <<"n","o","w","-","t","r","e","n","d","i","n","g","-","s","e","a","s","o","n","a","l","-","c","o","l","o","r","s">> }

NoUrl ==
  <<>>

\* url.pathname.toLowerCase().split('/').filter(Boolean)
PathParts(u) ==
  [i \in 1..Len(u) |-> ToLower(u[i])]

\* u.toLowerCase()
LowerUrl(u) ==
  [i \in 1..Len(u) |-> ToLower(u[i])]

\* parts.indexOf('productstore'), 0 when absent
IndexOfMarker(parts) ==
  IF \E i \in 1..Len(parts) : parts[i] = Marker
    THEN CHOOSE i \in 1..Len(parts) :
           parts[i] = Marker /\ \A j \in 1..(i - 1) : parts[j] # Marker
    ELSE 0

HasKeyword(seg) ==
  \E k \in 1..Len(Keywords) : Includes(ToLower(seg), Keywords[k])

\* LikelyRest with the keyword test ahead of the stop-term test
LikelyRestKeywordFirst(rest) ==
  IF Len(rest) < 2 THEN FALSE
  ELSE IF \E i \in 1..Len(rest) : HasKeyword(rest[i]) THEN TRUE
  ELSE IF \A i \in 1..Len(rest) : rest[i] \in STOPWORDS THEN FALSE
  ELSE IF Len(rest) >= 3 THEN TRUE
  ELSE \E i \in 1..Len(rest) : HasDigit(rest[i])

\* lines 312-322: rest is the segments after 'productstore'
LikelyRest(rest) ==
  IF Len(rest) < 2 THEN FALSE
  ELSE IF \A i \in 1..Len(rest) : rest[i] \in STOPWORDS THEN FALSE
  ELSE IF \E i \in 1..Len(rest) : HasKeyword(rest[i]) THEN TRUE
  ELSE IF Len(rest) >= 3 THEN TRUE
  ELSE \E i \in 1..Len(rest) : HasDigit(rest[i])

\* lines 304-326; lines 309-311: idx is the position of 'productstore' in
\* parts
isLikelyProductDetailUrl(u) ==
  LET parts == PathParts(u)
      idx == IndexOfMarker(parts)
  IN  IF u = NoUrl \/ idx = 0 THEN FALSE
      ELSE LikelyRest(SubSeq(parts, idx + 1, Len(parts)))

(***************************************************************************)
(* Products and the ranker                                                 *)
(***************************************************************************)
NoImage ==
  <<>>

Product(name, price, category, description, url, image) ==
  [name |-> name, price |-> price, category |-> category,
   description |-> description, url |-> url, image |-> image, tags |-> <<>>]

\* RankOrder with the shorter name first
RankOrderShortFirst(ad, bd, ap, bp, an, bn) ==
  IF ad # bd THEN bd - ad
  ELSE IF ap # bp THEN bp - ap
  ELSE an - bn

\* lines 348-354 for ad, bd, ap, bp, an, bn of lines 346-353
RankOrder(ad, bd, ap, bp, an, bn) ==
  IF ad # bd THEN bd - ad
  ELSE IF ap # bp THEN bp - ap
  ELSE bn - an

\* the comparison function of prioritizeProducts
RankCompare(a, b) ==
  RankOrder(IF isLikelyProductDetailUrl(a.url) THEN 1 ELSE 0,
            IF isLikelyProductDetailUrl(b.url) THEN 1 ELSE 0,
            IF a.price > 0 THEN 1 ELSE 0,
            IF b.price > 0 THEN 1 ELSE 0,
            Len(a.name), Len(b.name))

prioritizeProducts(items) ==
  StableSort(items, [pr \in Range(items) \X Range(items) |->
                       RankCompare(pr[1], pr[2])])

\* { ...p, ...found, url: found.url || p.url }
MergeFound(p, found) ==
  [k \in (DOMAIN p) \cup (DOMAIN found) |->
     IF k = "url" THEN (IF found.url # NoUrl THEN found.url ELSE p.url)
     ELSE IF k \in DOMAIN found THEN found[k] ELSE p[k]]

(***************************************************************************)
(* JavaScript values of the request parameters                             *)
(***************************************************************************)
Undefined ==
  [t |-> "undefined"]

NaN ==
  [t |-> "NaN"]

Num(n) ==
  [t |-> "number", v |-> n]

\* typeof x === 'number'
IsNumber(x) ==
  x.t \in {"number", "NaN"}

\* typeof x === 'number' && Number.isFinite(x)
IsFiniteNumber(x) ==
  x.t = "number"

\* the truth value of x in a condition or before ||
Truthy(x) ==
  \/ x.t = "number" /\ x.v # 0
  \/ x.t = "string" /\ x.v # <<>>

\* a query-string parameter: absent, a numeric text, or a text that Number()
\* turns into NaN
ParamAbsent ==
  [t |-> "absent"]

ParamNum(n) ==
  [t |-> "numeric", v |-> n]

\* Number(param)
ToNumber(param) ==
  IF param.t = "numeric" THEN Num(param.v) ELSE NaN

\* limitParam != null ? Math.max(1, Math.min(20, Number(limitParam))) : 3
ParseLimit(param) ==
  IF param.t = "absent" THEN Num(3)
  ELSE IF ToNumber(param).t = "NaN" THEN NaN
  ELSE Num(Max(1, Min(20, ToNumber(param).v)))

\* limit || 6
LimitOr6(limit) ==
  IF Truthy(limit) THEN limit.v ELSE 6

\* x || '' inside the cache key: the number, or the empty string
KeyPart(x) ==
  IF Truthy(x) THEN <<x.v>> ELSE <<>>

\* JSON.stringify([subsystem, q || '', category || '', maxPrice || '', limit || ''])
CacheKey(subsystem, r) ==
  <<subsystem, r.q, r.category, KeyPart(r.maxPrice), KeyPart(r.limit)>>

(***************************************************************************)
(* Configuration                                                           *)
(***************************************************************************)
\* process.env.SCRAPE_CACHE_TTL_MS, in ticks
SCRAPE_CACHE_TTL_MS ==
  1

\* six hours, in ticks
SITEMAP_CACHE_TTL_MS ==
  2

\* the clock stops at MaxTime
MaxTime ==
  2

\* at most MaxFailures fetches of a behaviour fail
MaxFailures ==
  2

\* a behaviour handles at most MaxRequests requests
MaxRequests ==
  2

\* the longest sequence handed to the ranker on its own
MaxItems ==
  3

\* the largest numeric 'limit' parameter handed to the handler's parse
MaxLimitParam ==
  22

\* the longest catalog handed to the local matcher on its own
MaxCatalog ==
  3

\* the longest path handed to the URL classifier on its own, in segments
MaxSegs ==
  4

\* the most offers of a JSON-LD node handed to the normalizer on its own
MaxOffers ==
  2

\* the largest 'limit' and 'maxFetch' handed to filterAndHydrateDetails on
\* its own
MaxCap ==
  2

\* the model follows a chain of redirects for at most MaxHops hops
MaxHops ==
  11

(***************************************************************************)
(* The web the fetches read                                                *)
(***************************************************************************)
Soap ==
  <<"s","o","a","p">>

U1 ==
  <<Marker, Soap, <<"s","k","u","1">>>>

\* U1 with another letter case
U1u ==
  <<Marker, Soap, <<"S","K","U","1">>>>

U2 ==
  <<Marker, Soap, <<"b","a","r","2">>>>

\* a detail-likely URL whose page carries no Product node
U4 ==
  <<Marker, <<"g","e","l">>, <<"i","t","e","m">>>>

\* a category page
UC ==
  <<Marker, <<"s","h","o","p">>>>

SmChild(n) ==
  <<<<"s","i","t","e","m","a","p","-","p","r","o","d","u","c","t","s">>, <<n>>>>

\* found = null: the page has no JSON-LD node that normalizes to a product
Null ==
  [null |-> TRUE]

NameSoap ==
  <<"S","o","a","p">>

NameBarB ==
  <<"B","a","r"," ","B">>

\* what each URL serves: search pages give the records their markup yields
\* (before de-duplication), the Bing page its hrefs, sitemaps their <loc>s,
\* a detail page the first product its JSON-LD blocks normalize to
W1 ==
  [ primary |-> << Product(NameSoap, 1, <<>>, <<>>, U1, NoImage),
                   Product(<<"B","a","r">>, 1, <<>>, <<>>, U2, NoImage),
                   Product(<<"S","h","o","p">>, 1, <<>>, <<>>, UC, NoImage) >>,
    alt     |-> << Product(NameSoap, 0, <<>>, <<>>, U1u, NoImage) >>,
    bing    |-> << U1u, UC, U2 >>,
    smroot  |-> [isIndex |-> TRUE,
                 locs |-> << SmChild("1"), <<<<"s","i","t","e","m","a","p","-","p","a","g","e","s">>>>, SmChild("2") >>],
    smchild |-> [u \in {SmChild("1"), SmChild("2")} |->
                   IF u = SmChild("1") THEN << U1u, UC, U4 >> ELSE << U2, U1u >>],
    detail  |-> [u \in {U1, U1u, U2, U4} |->
                   IF u = U1 THEN Product(NameSoap, 0, <<>>, <<"d">>, U1, NoImage)
                   ELSE IF u = U1u THEN Product(NameSoap, 0, <<>>, <<>>, U2, NoImage)
                   ELSE IF u = U2 THEN Product(NameBarB, 2, <<"B">>, <<>>, NoUrl, NoImage)
                   ELSE Null] ]

\* W1 when its search pages list category links only, Bing links to the
\* page of Soap as well, that page has no description, and the page of Bar B
\* declares the category page as its URL
W3 ==
  [W1 EXCEPT !.primary = << Product(<<"S","h","o","p">>, 1, <<>>, <<>>, UC, NoImage) >>,
             !.alt = << Product(NameBarB, 2, <<>>, <<>>, UC, NoImage) >>,
             !.bing = << U1, U1u, UC, U2 >>,
             !.detail[U1] = Product(NameSoap, 0, <<>>, <<>>, U1, NoImage),
             !.detail[U2] = Product(NameBarB, 2, <<"B">>, <<>>, UC, NoImage)]

(***************************************************************************)
(* The local catalog document public/data/products.json                    *)
(***************************************************************************)
CatalogProduct(name, price, category, description, tags, rating) ==
  [name |-> name, price |-> price, category |-> category,
   description |-> description, tags |-> tags, rating |-> rating]

(***************************************************************************)
(* Requests                                                                *)
(***************************************************************************)
\* the query strings of the model: q, category, max_price, limit
Requests ==
  { [q |-> Soap, category |-> <<>>, max_price |-> ParamAbsent, limit |-> ParamAbsent],
    [q |-> Soap, category |-> <<"s">>, max_price |-> ParamNum(1), limit |-> ParamNum(1)] }

(***************************************************************************)
(* State                                                                   *)
(***************************************************************************)
VARIABLES
  now,                \* Date.now()
  SCRAPE_ENABLED,     \* process.env.SCRAPE_DISABLED !== '1'
  SCRAPE_MAX_TIME_MS, \* the per-query budget
  cheerio,            \* whether require('cheerio') succeeded
  world,              \* which web the fetches read
  catalog,            \* which products.json is on disk
  SEARCH_CACHE,       \* key -> [ts, items, url]
  SITEMAP_CACHE,      \* [ts, urls]
  served,             \* number of requests received
  failed,             \* number of fetches that failed
  pc,                 \* the fetch each request handler awaits, or "idle"
  req,                \* { q, category, maxPrice, limit } of the handler
  startTs,            \* now / startTs of searchRemoteProducts
  items,              \* items of searchRemoteProducts
  usedUrl,            \* usedUrl of searchRemoteProducts
  verified,           \* verified of searchRemoteProducts
  via,                \* viaBing / viaSitemap
  fh,                 \* the running call of filterAndHydrateDetails
  sm,                 \* the running call of fetchSitemapUrls
  en,                 \* the running call of enrichFromDetailPages
  remote,             \* what searchRemoteProducts returned to the handler
  resp,               \* the response sent
  inflight,           \* the request the handler awaits
  fetched,            \* history: the fetches the handler's query has started
  call                \* the call of one function on its own, or NoCall

\* the request handler of the server that is followed
Procs ==
  {"h1"}

env ==
  <<SCRAPE_ENABLED, SCRAPE_MAX_TIME_MS, cheerio, world, catalog>>

\* w2 is the site when its search pages list nothing, w3 the site when they
\* list category links only
web ==
  [w1 |-> W1, w2 |-> [W1 EXCEPT !.primary = <<>>, !.alt = <<>>], w3 |-> W3][world]

\* the document of the behaviour
products_json ==
  CHOOSE doc \in
    { \* unreadable, or not JSON: readFileSync or JSON.parse throws
      [t |-> "unreadable"],
      \* JSON whose 'products' is not an array
      [t |-> "notalist"],
      [t |-> "ok",
       products |-> << CatalogProduct(<<"G","e","l">>, 1, <<"S">>, <<>>, <<>>, 4),
                       CatalogProduct(NameSoap, 1, <<"S">>, <<"d">>, <<Soap>>, 5),
                       CatalogProduct(NameBarB, 2, <<>>, <<>>, <<>>, 5) >>] } : doc.t = catalog

caches ==
  <<SEARCH_CACHE, SITEMAP_CACHE>>

locals ==
  <<pc, req, startTs, items, usedUrl, verified, via, <<fh, sm, en>>, remote, resp, inflight, fetched>>

vars ==
  <<now, env, caches, served, failed, locals, call>>

\* the suspension points: the positions at which a handler awaits a fetch
Wait ==
  {"w_primary", "w_alt", "w_fh", "w_bing", "w_smroot", "w_smchild", "w_en"}

NoSearchUrl ==
  [kind |-> "none"]

\* SCRAPE_SEARCH_URL with {q} replaced
UrlPrimary(q) ==
  [kind |-> "primary", q |-> q]

\* https://www.melaleuca.com/Search?searchTerm=q
UrlAlt(q) ==
  [kind |-> "alt", q |-> q]

NoFetch ==
  [kind |-> "none"]

FhIdle ==
  [src |-> <<>>, limit |-> 0, maxFetch |-> 0, keep |-> <<>>, visited |-> {},
   i |-> 0, ret |-> "none"]

SmIdle ==
  [now |-> 0, cand |-> <<>>, urls |-> <<>>, j |-> 0]

EnIdle ==
  [out |-> <<>>, i |-> 0, fetched |-> 0, changed |-> FALSE, maxFetch |-> 0,
   ret |-> "none"]

NoRemote ==
  [items |-> <<>>, url |-> NoSearchUrl, cached |-> FALSE]

NoResp ==
  [status |-> 0]

NoCall ==
  [fn |-> "none"]

\* the server as constructed: the module-level state of lines 60-62 and no
\* request under way
Constructed(P) ==
  /\ now = 0
  /\ SEARCH_CACHE = <<>>
  /\ SITEMAP_CACHE = [ts |-> 0, urls |-> <<>>]
  /\ served = 0
  /\ failed = 0
  /\ pc = [p \in P |-> "idle"]
  /\ req = [p \in P |-> [q |-> <<>>, category |-> <<>>, maxPrice |-> Undefined, limit |-> Undefined]]
  /\ startTs = [p \in P |-> 0]
  /\ items = [p \in P |-> <<>>]
  /\ usedUrl = [p \in P |-> NoSearchUrl]
  /\ verified = [p \in P |-> <<>>]
  /\ via = [p \in P |-> <<>>]
  /\ fh = [p \in P |-> FhIdle]
  /\ sm = [p \in P |-> SmIdle]
  /\ en = [p \in P |-> EnIdle]
  /\ remote = [p \in P |-> NoRemote]
  /\ resp = [p \in P |-> NoResp]
  /\ inflight = [p \in P |-> NoFetch]
  /\ fetched = [p \in P |-> <<>>]

Init ==
  /\ Constructed(Procs)
  /\ SCRAPE_ENABLED \in BOOLEAN
  /\ SCRAPE_MAX_TIME_MS \in {0, 1}
  \* the combinations of web, installation and catalog file
  /\ \E setup \in {<<"w1", TRUE, "ok">>, <<"w1", FALSE, "notalist">>,
                    <<"w2", FALSE, "unreadable">>, <<"w3", TRUE, "ok">>} :
       world = setup[1] /\ cheerio = setup[2] /\ catalog = setup[3]
  /\ call = NoCall

(***************************************************************************)
(* A handler runs from one suspension point to the next without anything   *)
(* else happening in between.  Its code is written below as functions of   *)
(* its frame f: its locals together with the two caches it reads and       *)
(* writes.  f.pc names the code that runs next.                            *)
(***************************************************************************)
Frame(p) ==
  [pc |-> pc[p], req |-> req[p], startTs |-> startTs[p], items |-> items[p],
   usedUrl |-> usedUrl[p], verified |-> verified[p], via |-> via[p],
   fh |-> fh[p], sm |-> sm[p], en |-> en[p], remote |-> remote[p],
   resp |-> resp[p], inflight |-> inflight[p], fetched |-> fetched[p],
   cache |-> SEARCH_CACHE, sitemap |-> SITEMAP_CACHE]

\* the handler p is left in frame f
Commit(p, f) ==
  /\ pc' = [pc EXCEPT ![p] = f.pc]
  /\ req' = [req EXCEPT ![p] = f.req]
  /\ startTs' = [startTs EXCEPT ![p] = f.startTs]
  /\ items' = [items EXCEPT ![p] = f.items]
  /\ usedUrl' = [usedUrl EXCEPT ![p] = f.usedUrl]
  /\ verified' = [verified EXCEPT ![p] = f.verified]
  /\ via' = [via EXCEPT ![p] = f.via]
  /\ fh' = [fh EXCEPT ![p] = f.fh]
  /\ sm' = [sm EXCEPT ![p] = f.sm]
  /\ en' = [en EXCEPT ![p] = f.en]
  /\ remote' = [remote EXCEPT ![p] = f.remote]
  /\ resp' = [resp EXCEPT ![p] = f.resp]
  /\ inflight' = [inflight EXCEPT ![p] = f.inflight]
  /\ fetched' = [fetched EXCEPT ![p] = f.fetched]
  /\ SEARCH_CACHE' = f.cache
  /\ SITEMAP_CACHE' = f.sitemap

\* time passes while handlers await or idle
Tick ==
  /\ now < MaxTime
  /\ now' = now + 1
  /\ UNCHANGED <<env, caches, served, failed, locals, call>>

\* (Date.now() - startTs) > SCRAPE_MAX_TIME_MS
Expired(f) ==
  (now - f.startTs) > SCRAPE_MAX_TIME_MS

Go(f, label) ==
  [f EXCEPT !.pc = label]

\* httpGet(url) is called and awaited
Await(f, label, kind, url) ==
  [f EXCEPT !.pc = label, !.inflight = [kind |-> kind, url |-> url],
            !.fetched = Append(f.fetched, [kind |-> kind, url |-> url])]

\* the awaited fetch is over
Landed(f) ==
  [f EXCEPT !.inflight = NoFetch]

\* httpGet resolved with the page (ok), or rejected: timeout, network error,
\* non-2xx status
Outcome(ok) ==
  /\ ~ok => failed < MaxFailures
  /\ failed' = IF ok THEN failed ELSE failed + 1

(***************************************************************************)
(* parseProductsFromHTML                                                   *)
(***************************************************************************)
\* the elements of s whose index satisfies T, in order
FilterIdx(s, T(_)) ==
  LET F[i \in 0..Len(s)] ==
        IF i = 0 THEN <<>>
        ELSE IF T(i) THEN Append(F[i - 1], s[i]) ELSE F[i - 1]
  IN  F[Len(s)]

\* Array.prototype.filter
Filter(s, T(_)) ==
  LET AtIdx(i) == T(s[i]) IN FilterIdx(s, AtIdx)

\* (p.url || p.name).toLowerCase()
DedupKey(p) ==
  IF p.url # NoUrl THEN <<"url", LowerUrl(p.url)>>
                   ELSE <<"name", <<ToLower(p.name)>>>>

\* the records of a page: first record of each key, detail-likely or priced,
\* ranked
parseProductsFromHTML(raw) ==
  LET First(i) == \A j \in 1..(i - 1) : DedupKey(raw[j]) # DedupKey(raw[i])
      list == FilterIdx(raw, First)
      Kept(p) == isLikelyProductDetailUrl(p.url) \/ p.price > 0
  IN  prioritizeProducts(Filter(list, Kept))

\* items.some(p => isLikelyProductDetailUrl(p.url))
SomeDetail(list) ==
  \E i \in 1..Len(list) : isLikelyProductDetailUrl(list[i].url)

(***************************************************************************)
(* The caches                                                              *)
(***************************************************************************)
\* CacheFresh with <= for <: an entry whose age equals the TTL still counts
CacheFreshInclusive(entry, t) ==
  (t - entry.ts) <= SCRAPE_CACHE_TTL_MS

\* (now - cached.ts) < SCRAPE_CACHE_TTL_MS
CacheFresh(entry, t) ==
  (t - entry.ts) < SCRAPE_CACHE_TTL_MS

\* the lookup of searchRemoteProducts: an entry, with items, not too old
RemoteCacheHit(cache, key, t) ==
  /\ key \in DOMAIN cache
  /\ Len(cache[key].items) > 0
  /\ CacheFresh(cache[key], t)

\* the lookup of searchLocalProducts: an entry, not too old
LocalCacheHit(cache, key, t) ==
  /\ key \in DOMAIN cache
  /\ CacheFresh(cache[key], t)

\* SITEMAP_CACHE.urls.length && (now - SITEMAP_CACHE.ts) < SITEMAP_CACHE_TTL_MS
SitemapCacheHit(slot, t) ==
  /\ Len(slot.urls) > 0
  /\ (t - slot.ts) < SITEMAP_CACHE_TTL_MS

\* SEARCH_CACHE.set(key, entry)
CachePut(cache, key, entry) ==
  [k \in (DOMAIN cache) \cup {key} |-> IF k = key THEN entry ELSE cache[k]]

\* WorthCaching without the length test
WorthCachingAlways(list) ==
  Len(list) >= 0

\* Array.isArray(items) && items.length > 0, the condition of the cache write
WorthCaching(list) ==
  Len(list) > 0

(***************************************************************************)
(* The request handler and searchRemoteProducts up to the primary fetch    *)
(***************************************************************************)
\* CachedResult without the cached flag
CachedResultUnflagged(entry, q) ==
  [items |-> entry.items,
   url |-> IF entry.url # NoSearchUrl THEN entry.url ELSE UrlPrimary(q),
   cached |-> FALSE]

\* what searchRemoteProducts returns on a cache hit
CachedResult(entry, q) ==
  [items |-> entry.items,
   url |-> IF entry.url # NoSearchUrl THEN entry.url ELSE UrlPrimary(q),
   cached |-> TRUE]


\* lines 654-660 and 452-465: the parameters, the lookup in SEARCH_CACHE, the
\* primary fetch
Start(f, r) ==
  LET parsed == [q |-> r.q, category |-> r.category,
                 maxPrice |-> IF r.max_price.t = "absent" THEN Undefined
                             ELSE ToNumber(r.max_price),
                 limit |-> ParseLimit(r.limit)]
      key == CacheKey("remote", parsed)
      f1 == [f EXCEPT !.req = parsed, !.resp = NoResp, !.remote = NoRemote,
                      !.fetched = <<>>]
  IN  IF ~SCRAPE_ENABLED
        THEN Go(f1, "handler")
      ELSE IF RemoteCacheHit(f.cache, key, now)
        THEN [f1 EXCEPT !.startTs = now,
                        !.remote = CachedResult(f.cache[key], parsed.q),
                        !.pc = "handler"]
      ELSE Await([f1 EXCEPT !.startTs = now, !.usedUrl = UrlPrimary(parsed.q)],
                 "w_primary", "primary", NoUrl)

\* lines 471-477: got is what the primary page yielded
PrimaryParsed(f, got) ==
  IF (Len(got) = 0 \/ ~SomeDetail(got)) /\ ~Expired(f)
    THEN Await([Landed(f) EXCEPT !.items = got], "w_alt", "alt", NoUrl)
    ELSE Go([Landed(f) EXCEPT !.items = got], "verify")

\* AltParsed taking the alternate page whenever its fetch succeeds
AltParsedAlways(f, ok, parsed) ==
  IF ok
    THEN [Go(Landed(f), "verify") EXCEPT !.items = parsed,
                                         !.usedUrl = UrlAlt(f.req.q)]
    ELSE Go(Landed(f), "verify")

\* lines 481-485: parsed is what the alternate page yielded
AltParsed(f, ok, parsed) ==
  IF ok /\ Len(parsed) > 0 /\ SomeDetail(parsed)
    THEN [Go(Landed(f), "verify") EXCEPT !.items = parsed,
                                         !.usedUrl = UrlAlt(f.req.q)]
    ELSE Go(Landed(f), "verify")

(***************************************************************************)
(* filterAndHydrateDetails                                                 *)
(***************************************************************************)
FhCall(src, limit, maxFetch, ret) ==
  [src |-> src, limit |-> limit, maxFetch |-> maxFetch, keep |-> <<>>,
   visited |-> {}, i |-> 1, ret |-> ret]

\* lines 489-495
Verify(f) ==
  LET f1 == [f EXCEPT !.verified = <<>>]
  IN  IF ~Expired(f)
        THEN [f1 EXCEPT !.fh = FhCall(f.items, Max(3, LimitOr6(f.req.limit)),
                                      6, "main"),
                        !.pc = "fh_loop"]
        ELSE Go(f1, "fallback")

\* the loop fetching a URL it has visited before
FhLoopRevisit(f) ==
  LET h == f.fh
  IN  IF h.i > Len(h.src) \/ Expired(f)
        THEN Go(f, "fh_ret")
        ELSE LET c == h.src[h.i]
             IN  IF c.url = NoUrl
                   THEN [f EXCEPT !.fh.i = h.i + 1]
                 ELSE IF ~isLikelyProductDetailUrl(c.url)
                   THEN [f EXCEPT !.fh.i = h.i + 1,
                                  !.fh.visited = h.visited \cup {c.url}]
                 ELSE Await([f EXCEPT !.fh.visited = h.visited \cup {c.url}],
                            "w_fh", "detail", c.url)

\* one pass over lines 12-20: the next candidate, up to its fetch
FhLoop(f) ==
  LET h == f.fh
  IN  IF h.i > Len(h.src) \/ Expired(f)
        THEN Go(f, "fh_ret")
        ELSE LET c == h.src[h.i]
             IN  IF c.url = NoUrl \/ c.url \in h.visited
                   THEN [f EXCEPT !.fh.i = h.i + 1]
                 ELSE IF ~isLikelyProductDetailUrl(c.url)
                   THEN [f EXCEPT !.fh.i = h.i + 1,
                                  !.fh.visited = h.visited \cup {c.url}]
                 ELSE Await([f EXCEPT !.fh.visited = h.visited \cup {c.url}],
                            "w_fh", "detail", c.url)

\* lines 20-33 once the page fetch is over
AfterDetail(f, ok) ==
  LET h == f.fh
      c == h.src[h.i]
      found == IF ok THEN web.detail[c.url] ELSE Null
      keep2 == IF found # Null THEN Append(h.keep, MergeFound(c, found))
                               ELSE h.keep
      f1 == Landed(f)
  IN  IF ok /\ (Len(keep2) >= h.limit \/ Cardinality(h.visited) >= h.maxFetch)
        THEN [f1 EXCEPT !.fh.keep = keep2, !.pc = "fh_ret"]
        ELSE [f1 EXCEPT !.fh.keep = keep2,
                        !.fh.maxFetch = h.maxFetch - 1,
                        !.fh.i = h.i + 1,
                        !.pc = IF h.maxFetch - 1 <= 0 THEN "fh_ret"
                                                      ELSE "fh_loop"]

\* return keep: line 493, lines 185-186 or lines 243-244 take it
FhRet(f) ==
  LET keep == f.fh.keep
      ranked == IF Len(keep) > 0 THEN prioritizeProducts(keep) ELSE <<>>
      f1 == [f EXCEPT !.fh = FhIdle]
  IN  CASE f.fh.ret = "main" ->
             [f1 EXCEPT !.verified = keep, !.pc = "fallback"]
      []   f.fh.ret = "bing" ->
             [f1 EXCEPT !.via = ranked, !.pc = "after_bing"]
      []   f.fh.ret = "sitemap" ->
             [f1 EXCEPT !.via = ranked, !.items = ranked, !.pc = "final"]
      \* the function was called on its own
      []   f.fh.ret = "call" ->
             [f1 EXCEPT !.verified = keep, !.pc = "idle"]

(***************************************************************************)
(* The fallbacks: searchViaBingProducts, fetchSitemapUrls, searchViaSitemap*)
(***************************************************************************)
\* a candidate made of a bare link
Candidate(u) ==
  Product(<<>>, 0, <<>>, <<>>, u, NoImage)

\* the elements of s in order of first occurrence: Array.from(new Set(s))
Distinct(s) ==
  LET First(i) == \A j \in 1..(i - 1) : s[j] # s[i]
  IN  FilterIdx(s, First)

\* Fallback trying Bing whatever the verification kept
FallbackAlways(f) ==
  IF ~Expired(f)
    THEN IF ~cheerio
           THEN [f EXCEPT !.via = <<>>, !.pc = "after_bing"]
           ELSE Await(f, "w_bing", "bing", NoUrl)
    ELSE [f EXCEPT !.items = <<>>, !.pc = "final"]

\* lines 496-499 and 512-521, and lines 167-171
Fallback(f) ==
  IF Len(f.verified) = 0
    THEN IF ~Expired(f)
           THEN IF ~cheerio
                  THEN [f EXCEPT !.via = <<>>, !.pc = "after_bing"]
                  ELSE Await(f, "w_bing", "bing", NoUrl)
           ELSE [f EXCEPT !.items = <<>>, !.pc = "final"]
    ELSE [f EXCEPT !.items = f.verified, !.pc = "final"]

\* lines 172-185 once the Bing page fetch is over
AfterBingPage(f, ok) ==
  LET limit == LimitOr6(f.req.limit)
      links == Distinct(Filter(web.bing, isLikelyProductDetailUrl))
      picked == Slice(links, Max(3, limit))
      candidates == [i \in 1..Len(picked) |-> Candidate(picked[i])]
      f1 == Landed(f)
  IN  IF ok
        THEN [f1 EXCEPT !.fh = FhCall(candidates, Max(3, limit), 6, "bing"),
                        !.pc = "fh_loop"]
        ELSE [f1 EXCEPT !.via = <<>>, !.pc = "after_bing"]

\* lines 500-514, and lines 193-200 of fetchSitemapUrls
AfterBing(f) ==
  IF Len(f.via) > 0
    THEN [f EXCEPT !.items = f.via, !.pc = "final"]
  ELSE IF ~Expired(f)
    THEN IF SitemapCacheHit(f.sitemap, now)
           THEN [f EXCEPT !.sm = [SmIdle EXCEPT !.now = now,
                                                !.urls = f.sitemap.urls],
                          !.pc = "sm_score"]
           ELSE Await([f EXCEPT !.sm = [SmIdle EXCEPT !.now = now]],
                      "w_smroot", "smroot", NoUrl)
  ELSE [f EXCEPT !.items = <<>>, !.pc = "final"]

\* urls.add(l) for every l of locs that lies under /productstore/
AddLocs(urls, locs) ==
  Distinct(urls \o Filter(locs, LAMBDA l :
                           \E i \in 1..(Len(l) - 1) : ToLower(l[i]) = Marker))

\* lines 220-223
SitemapStore(slot, t, out) ==
  [ts |-> t, urls |-> out]

\* lines 201-223 once the fetch of sitemap.xml is over
AfterSitemapRoot(f, ok) ==
  LET cand == IF ok /\ web.smroot.isIndex
                THEN Slice(Filter(web.smroot.locs, LAMBDA u :
                             \E i \in 1..Len(u) : Includes(ToLower(u[i]), Keywords[1])), 4)
                ELSE <<>>
      urls == IF ok /\ ~web.smroot.isIndex
                THEN AddLocs(<<>>, web.smroot.locs)
                ELSE <<>>
  IN  IF Len(cand) > 0
        THEN Await([f EXCEPT !.sm.cand = cand, !.sm.j = 1],
                   "w_smchild", "smchild", cand[1])
        ELSE [Landed(f) EXCEPT !.sitemap = SitemapStore(f.sitemap, f.sm.now, urls),
                               !.sm.urls = urls,
                               !.pc = "sm_score"]

\* lines 206-223 once the fetch of a child sitemap is over
AfterSitemapChild(f, ok) ==
  LET m == f.sm
      u == m.cand[m.j]
      urls == IF ok THEN AddLocs(m.urls, web.smchild[u]) ELSE m.urls
  IN  IF m.j < Len(m.cand)
        THEN Await([f EXCEPT !.sm.urls = urls, !.sm.j = m.j + 1],
                   "w_smchild", "smchild", m.cand[m.j + 1])
        ELSE [Landed(f) EXCEPT !.sitemap = SitemapStore(f.sitemap, m.now, urls),
                               !.sm.urls = urls,
                               !.pc = "sm_score"]

\* u.toLowerCase().includes(t) for a token t of [a-z0-9]+: t lies within a
\* path segment or within an alphanumeric run of https://www.melaleuca.com
SlugIncludes(u, t) ==
  \/ \E i \in 1..Len(u) : Includes(ToLower(u[i]), t)
  \/ \E h \in { <<"h","t","t","p","s">>, <<"w","w","w">>,
                <<"m","e","l","a","l","e","u","c","a">>, <<"c","o","m">> } :
       Includes(h, t)

\* lines 233-237: each URL with the number of tokens its slug includes
SlugScored(urls, toks) ==
  [i \in 1..Len(urls) |-> [u |-> urls[i],
                          s |-> Cardinality({k \in 1..Len(toks) :
                                               SlugIncludes(urls[i], toks[k])})]]

\* ByScoreDesc with the lowest score first
ByScoreAsc(scored) ==
  StableSort(scored, [pr \in Range(scored) \X Range(scored) |->
                        pr[1].s - pr[2].s])

\* lines 239 and 589: .sort((a, b) => b.s - a.s)
ByScoreDesc(scored) ==
  StableSort(scored, [pr \in Range(scored) \X Range(scored) |->
                        pr[2].s - pr[1].s])

\* lines 230-240: the URLs of the sitemap that match the query, best first
ScoredUrls(urls, q, limit) ==
  LET Positive(x) == x.s > 0
  IN  Slice(ByScoreDesc(Filter(SlugScored(Filter(urls, isLikelyProductDetailUrl),
                                          Tokens(ToLower(q))),
                               Positive)),
            Max(3, limit * 3))

\* lines 241-243: the scored URLs become the candidates of a verification
SmVerify(f, scored, limit) ==
  IF Len(scored) = 0
    THEN [f EXCEPT !.sm = SmIdle, !.items = <<>>, !.pc = "final"]
    ELSE [f EXCEPT !.sm = SmIdle,
                   !.fh = FhCall([i \in 1..Len(scored) |-> Candidate(scored[i].u)],
                                 Max(3, limit), Max(6, limit * 2), "sitemap"),
                   !.pc = "fh_loop"]

\* lines 229-243 and 505-511 once fetchSitemapUrls has returned
SmScore(f) ==
  SmVerify(f,
           IF Len(f.sm.urls) = 0 THEN <<>>
           ELSE ScoredUrls(f.sm.urls, f.req.q, LimitOr6(f.req.limit)),
           LimitOr6(f.req.limit))

(***************************************************************************)
(* The final filters, enrichFromDetailPages and the cache write            *)
(***************************************************************************)
\* lines 532-535
MatchesCategory(p, category) ==
  \/ Includes(ToLower(p.category), ToLower(category))
  \/ Includes(ToLower(p.name), ToLower(category))

\* lines 523-530
DetailFilter(list) ==
  LET Likely(p) == isLikelyProductDetailUrl(p.url)
  IN  Filter(list, Likely)

\* lines 532-535
CategoryFilter(list, category) ==
  LET InCategory(p) == MatchesCategory(p, category)
  IN  IF category # <<>> THEN Filter(list, InCategory) ELSE list

\* lines 536-538
PriceFilter(list, maxPrice) ==
  LET InPrice(p) == p.price <= maxPrice.v
  IN  IF IsFiniteNumber(maxPrice) THEN Filter(list, InPrice) ELSE list

\* lines 539 and 591: if (limit) list = list.slice(0, limit)
LimitFilter(list, limit) ==
  IF Truthy(limit) THEN Slice(list, limit.v) ELSE list

\* lines 523-539
FinalFilter(list, r) ==
  LimitFilter(PriceFilter(CategoryFilter(DetailFilter(list), r.category),
                          r.maxPrice),
              r.limit)

\* enrichFromDetailPages(list, maxFetch) is entered; ret tells who takes what
\* it returns
EnCall(list, maxFetch, ret) ==
  [out |-> list, i |-> 1, fetched |-> 0, changed |-> FALSE,
   maxFetch |-> maxFetch, ret |-> ret]

\* lines 541-544: list is what the filters left
Enrich(f, list) ==
  IF \E i \in 1..Len(list) : (isLikelyProductDetailUrl(list[i].url) /\ list[i].description = <<>>
                                 /\ list[i].price = 0)
    THEN [f EXCEPT !.items = list,
                   !.en = EnCall(list, 4, "main"),
                   !.pc = "en_loop"]
    ELSE [f EXCEPT !.items = list, !.pc = "store"]

\* line 365: "basics", "thin", or "throws" when p.image is not a string
HasBasics(p) ==
  IF p.description # <<>> \/ p.price > 0 THEN "basics"
  ELSE IF p.image = NoImage THEN "thin"
  ELSE IF p.image = <<"{}">> THEN "throws"
  ELSE IF Len(p.image) >= 4 /\ SubSeq(p.image, 1, 4) = <<"h","t","t","p">>
    THEN "basics" ELSE "thin"

\* lines 382 and 545: the loop is over, or line 365 threw
EnRet(f, threw) ==
  LET e == f.en
  IN  IF e.ret = "call"
        \* the function was called on its own
        THEN [f EXCEPT !.items = e.out, !.en = EnIdle, !.pc = "idle"]
      ELSE IF threw THEN [f EXCEPT !.en = EnIdle, !.pc = "store"]
      ELSE [f EXCEPT !.items = IF e.changed THEN prioritizeProducts(e.out)
                                            ELSE f.items,
                     !.en = EnIdle,
                     !.pc = "store"]

\* the loop fetching the page of every detail-likely record
EnLoopAll(f) ==
  LET e == f.en
  IN  IF e.i > Len(e.out) \/ e.fetched >= e.maxFetch
        THEN EnRet(f, FALSE)
        ELSE LET c == e.out[e.i]
             IN  IF ~isLikelyProductDetailUrl(c.url)
                   THEN [f EXCEPT !.en.i = e.i + 1]
                 ELSE Await(f, "w_en", "enrich", c.url)

\* one pass over lines 361-368
EnLoop(f) ==
  LET e == f.en
  IN  IF e.i > Len(e.out) \/ e.fetched >= e.maxFetch
        THEN EnRet(f, FALSE)
        ELSE LET c == e.out[e.i]
             IN  IF ~isLikelyProductDetailUrl(c.url) \/ HasBasics(c) = "basics"
                   THEN [f EXCEPT !.en.i = e.i + 1]
                 ELSE IF HasBasics(c) = "throws"
                   THEN EnRet(f, TRUE)
                 ELSE Await(f, "w_en", "enrich", c.url)

\* lines 368-380 once the page fetch is over
AfterEnrich(f, ok) ==
  LET e == f.en
      c == e.out[e.i]
      prod == IF ok THEN web.detail[c.url] ELSE Null
  IN  [Landed(f) EXCEPT
         !.en.out = IF prod # Null THEN [e.out EXCEPT ![e.i] = MergeFound(c, prod)]
                                   ELSE e.out,
         !.en.changed = e.changed \/ prod # Null,
         !.en.fetched = IF ok THEN e.fetched + 1 ELSE e.fetched,
         !.en.i = e.i + 1,
         !.pc = "en_loop"]

\* Store keeping the first item only
StoreFirst(f) ==
  [f EXCEPT
     !.cache = IF WorthCaching(f.items)
                 THEN CachePut(f.cache, CacheKey("remote", f.req),
                               [ts |-> f.startTs, items |-> <<f.items[1]>>,
                                url |-> f.usedUrl])
                 ELSE f.cache,
     !.remote = [items |-> f.items, url |-> f.usedUrl, cached |-> FALSE],
     !.pc = "handler"]

\* lines 548-552
Store(f) ==
  [f EXCEPT
     !.cache = IF WorthCaching(f.items)
                 THEN CachePut(f.cache, CacheKey("remote", f.req),
                               [ts |-> f.startTs, items |-> f.items,
                                url |-> f.usedUrl])
                 ELSE f.cache,
     !.remote = [items |-> f.items, url |-> f.usedUrl, cached |-> FALSE],
     !.pc = "handler"]

(***************************************************************************)
(* The local catalog matcher                                               *)
(***************************************************************************)
RECURSIVE JoinFrom(_, _, _)
JoinFrom(ss, sep, i) ==
  IF i > Len(ss) THEN <<>>
  ELSE (IF i > 1 THEN sep ELSE <<>>) \o ss[i] \o JoinFrom(ss, sep, i + 1)

\* Array.prototype.join
Join(ss, sep) ==
  JoinFrom(ss, sep, 1)

\* line 558
Haystack(p) ==
  ToLower(p.name) \o <<" ">> \o ToLower(p.description) \o <<" ">>
    \o Join([i \in 1..Len(p.tags) |-> ToLower(p.tags[i])], <<" ">>)
    \o <<" ">> \o ToLower(p.category)

\* lines 559-565
TokScore(hay, qq) ==
  IF qq = <<>> THEN 0
  ELSE 2 * Cardinality({i \in 1..Len(Tokens(qq)) : Includes(hay, Tokens(qq)[i])})
       + (IF Includes(hay, qq) THEN 3 ELSE 0)

\* five times the score of scoreLocal, the rating weighing 0.2
scoreLocal(p, r) ==
  5 * (TokScore(Haystack(p), ToLower(r.q))
       + (IF r.category # <<>> /\ ToLower(p.category) = ToLower(r.category)
            THEN 2 ELSE 0)
       + (IF r.maxPrice.t = "number" /\ p.price <= r.maxPrice.v THEN 1 ELSE 0))
    + p.rating

\* line 585
LocalPrice(list, maxPrice) ==
  LET InPrice(p) == maxPrice.t = "number" /\ p.price <= maxPrice.v
  IN  IF IsNumber(maxPrice) THEN Filter(list, InPrice) ELSE list

\* line 586
LocalCategory(list, category) ==
  LET InCategory(p) == ToLower(p.category) = ToLower(category)
  IN  IF category # <<>> THEN Filter(list, InCategory) ELSE list

\* line 588
LocalScored(list, r) ==
  [i \in 1..Len(list) |-> [p |-> list[i], s |-> scoreLocal(list[i], r)]]

\* line 590
Unscored(sorted) ==
  [i \in 1..Len(sorted) |-> sorted[i].p]

\* lines 584-591: filter, score, sort, truncate
LocalList(products, r) ==
  LimitFilter(Unscored(ByScoreDesc(LocalScored(
                LocalCategory(LocalPrice(products, r.maxPrice), r.category), r))),
              r.limit)

\* lines 577-583: the products read, "throws" standing for a value that
\* line 584 cannot slice
ReadCatalog(doc) ==
  IF doc.t = "ok" THEN doc.products
  ELSE IF doc.t = "unreadable" THEN <<>>
  ELSE "throws"

(***************************************************************************)
(* The request handler after searchRemoteProducts                          *)
(***************************************************************************)
\* sendJSON(res, 200, { items, ...meta, site, query })
Answer(f, list, meta) ==
  [f EXCEPT !.resp = [status |-> 200, items |-> list, source |-> meta.source,
                      url |-> meta.url, cached |-> meta.cached],
            !.pc = "respond"]

\* lines 592-593 and 673-679: the computed list is stored and answered
AnswerLocal(f, key, list) ==
  Answer([f EXCEPT !.cache = CachePut(f.cache, key,
            [ts |-> now, items |-> list, url |-> NoSearchUrl])],
         list, [source |-> "local", url |-> NoSearchUrl, cached |-> FALSE])

\* lines 573-593 and 673-683: searchLocalProducts and its answer
HandleLocal(f, key) ==
  IF LocalCacheHit(f.cache, key, now)
    THEN Answer(f, f.cache[key].items,
                [source |-> "local", url |-> NoSearchUrl, cached |-> TRUE])
  ELSE IF ReadCatalog(products_json) = "throws"
    THEN [f EXCEPT !.resp = [status |-> 500], !.pc = "respond"]
  ELSE AnswerLocal(f, key, LocalList(ReadCatalog(products_json), f.req))

\* lines 673-679: items and meta are what lines 662-672 left
HandleFound(f, found, meta) ==
  IF Len(found) > 0
    THEN Answer(f, found, meta)
    ELSE HandleLocal(f, CacheKey("local", f.req))

\* lines 662-683, with searchLocalProducts
Handle(f) ==
  IF Len(f.remote.items) > 0
    THEN HandleFound(f, f.remote.items,
                     [source |-> "web", url |-> f.remote.url,
                      cached |-> f.remote.cached])
    ELSE HandleFound(f, <<>>, [source |-> "empty", url |-> NoSearchUrl, cached |-> FALSE])

\* the response is out and the locals of the call are gone; the model keeps
\* the request, what searchRemoteProducts returned and the response
Respond(f) ==
  [f EXCEPT !.startTs = 0, !.items = <<>>, !.usedUrl = NoSearchUrl,
            !.verified = <<>>, !.via = <<>>, !.pc = "idle"]

\* the code at f.pc
Step(f) ==
  CASE f.pc = "verify"     -> Verify(f)
  []   f.pc = "fh_loop"    -> FhLoop(f)
  []   f.pc = "fh_ret"     -> FhRet(f)
  []   f.pc = "fallback"   -> Fallback(f)
  []   f.pc = "after_bing" -> AfterBing(f)
  []   f.pc = "sm_score"   -> SmScore(f)
  []   f.pc = "final"      -> Enrich(f, FinalFilter(f.items, f.req))
  []   f.pc = "en_loop"    -> EnLoop(f)
  []   f.pc = "store"      -> Store(f)
  []   f.pc = "handler"    -> Handle(f)
  []   f.pc = "respond"    -> Respond(f)

\* the handler runs until it awaits a fetch or has answered
RECURSIVE Run(_)
Run(f) ==
  IF f.pc \in Wait \cup {"idle"} THEN f ELSE Run(Step(f))

(***************************************************************************)
(* The actions: a request arrives, an awaited fetch is over, time passes   *)
(***************************************************************************)
Request(p, r) ==
  /\ pc[p] = "idle"
  /\ served < MaxRequests
  /\ served' = served + 1
  /\ Commit(p, Run(Start(Frame(p), r)))
  /\ UNCHANGED <<now, env, failed, call>>

PrimaryDone(p, ok) ==
  /\ pc[p] = "w_primary"
  /\ Outcome(ok)
  /\ Commit(p, Run(PrimaryParsed(Frame(p),
                   IF ok THEN parseProductsFromHTML(web.primary) ELSE <<>>)))
  /\ UNCHANGED <<now, env, served, call>>

AltDone(p, ok) ==
  /\ pc[p] = "w_alt"
  /\ Outcome(ok)
  /\ Commit(p, Run(AltParsed(Frame(p), ok,
                   IF ok THEN parseProductsFromHTML(web.alt) ELSE <<>>)))
  /\ UNCHANGED <<now, env, served, call>>

FhDone(p, ok) ==
  /\ pc[p] = "w_fh"
  /\ Outcome(ok)
  /\ ok => fh[p].src[fh[p].i].url \in DOMAIN web.detail
  /\ Commit(p, Run(AfterDetail(Frame(p), ok)))
  /\ UNCHANGED <<now, env, served, call>>

BingDone(p, ok) ==
  /\ pc[p] = "w_bing"
  /\ Outcome(ok)
  /\ Commit(p, Run(AfterBingPage(Frame(p), ok)))
  /\ UNCHANGED <<now, env, served, call>>

SmRootDone(p, ok) ==
  /\ pc[p] = "w_smroot"
  /\ Outcome(ok)
  /\ Commit(p, Run(AfterSitemapRoot(Frame(p), ok)))
  /\ UNCHANGED <<now, env, served, call>>

SmChildDone(p, ok) ==
  /\ pc[p] = "w_smchild"
  /\ Outcome(ok)
  /\ ok => sm[p].cand[sm[p].j] \in DOMAIN web.smchild
  /\ Commit(p, Run(AfterSitemapChild(Frame(p), ok)))
  /\ UNCHANGED <<now, env, served, call>>

EnDone(p, ok) ==
  /\ pc[p] = "w_en"
  /\ Outcome(ok)
  /\ ok => en[p].out[en[p].i].url \in DOMAIN web.detail
  /\ Commit(p, Run(AfterEnrich(Frame(p), ok)))
  /\ UNCHANGED <<now, env, served, call>>

Next ==
  \/ Tick
  \/ \E p \in Procs, r \in Requests : Request(p, r)
  \/ \E p \in Procs, ok \in BOOLEAN : PrimaryDone(p, ok)
  \/ \E p \in Procs, ok \in BOOLEAN : AltDone(p, ok)
  \/ \E p \in Procs, ok \in BOOLEAN : FhDone(p, ok)
  \/ \E p \in Procs, ok \in BOOLEAN : BingDone(p, ok)
  \/ \E p \in Procs, ok \in BOOLEAN : SmRootDone(p, ok)
  \/ \E p \in Procs, ok \in BOOLEAN : SmChildDone(p, ok)
  \/ \E p \in Procs, ok \in BOOLEAN : EnDone(p, ok)

Spec ==
  Init /\ [][Next]_vars

(***************************************************************************)
(* The functions on their own: a call is drawn with its arguments, the     *)
(* function is applied to them, and the call holds what it returned.  The  *)
(* server is as constructed and does nothing meanwhile.                    *)
(***************************************************************************)
\* a call of fn with the arguments arg, before it runs
Call(fn, arg, ret) ==
  [fn |-> fn, arg |-> arg, ret |-> ret, done |-> FALSE]

\* the call is over and returned ret
Returned(ret) ==
  [call EXCEPT !.ret = ret, !.done = TRUE]

\* the sequences of at most n elements of S
SeqsUpTo(S, n) ==
  UNION {[1..k -> S] : k \in 0..n}

\* catalog entries for the local matcher: two that score alike, categories
\* that differ in letter case, prices on both sides of a ceiling
LocalPool ==
  { CatalogProduct(NameSoap, 1, <<"S">>, <<>>, <<>>, 5),
    CatalogProduct(NameSoap, 1, <<"S">>, <<"d">>, <<>>, 5),
    CatalogProduct(<<"G","e","l">>, 2, <<"s">>, <<>>, <<Soap>>, 4),
    CatalogProduct(NameBarB, 1, <<>>, <<>>, <<>>, 5) }

(***************************************************************************)
(* JSON-LD normalization                                                   *)
(***************************************************************************)
RECURSIVE DigitRun(_, _)
\* the digits s holds from position i on up to the first other character
DigitRun(s, i) ==
  IF i > Len(s) \/ s[i] \notin Digits THEN <<>>
  ELSE <<s[i]>> \o DigitRun(s, i + 1)

RECURSIVE Decimal(_, _)
\* Number(m[1]) for a run of digits: the value of its first n digits
Decimal(run, n) ==
  IF n = 0 THEN 0
  ELSE 10 * Decimal(run, n - 1) + (CHOOSE d \in 0..9 : ToString(d) = run[n])

\* line 255: the first run of digits of s; the price strings of the model
\* hold no decimal point
FirstNumber(s) ==
  LET start == CHOOSE i \in 1..Len(s) :
                 s[i] \in Digits /\ \A j \in 1..(i - 1) : s[j] \notin Digits
  IN  IF \E i \in 1..Len(s) : s[i] \in Digits
        THEN Num(Decimal(DigitRun(s, start), Len(DigitRun(s, start))))
        ELSE NaN

\* lines 252-259
parsePrice(x) ==
  IF IsNumber(x) THEN x
  ELSE IF x.t = "string"
    THEN FirstNumber(SelectSeq(x.v, LAMBDA c : c \notin {",", " "}))
  ELSE NaN

RECURSIVE OfferPrice(_, _)
\* lines 266-275: the price of the first offer from the i-th on that has a
\* truthy price or a truthy priceSpecification.price, undefined when none has
OfferPrice(offers, i) ==
  IF i > Len(offers) THEN Undefined
  ELSE IF Truthy(offers[i].price) THEN parsePrice(offers[i].price)
  ELSE IF Truthy(offers[i].specPrice) THEN parsePrice(offers[i].specPrice)
  ELSE OfferPrice(offers, i + 1)

\* lines 261-295 for a node given by the strings of its @type, its name and
\* url ('' when it has none) and its offers; the url of a node is absolute
\* in the model, so resolving it against the base leaves it as it is
normalizeProductFromJSONLD(node) ==
  LET price == OfferPrice(node.offers, 1)
  IN  IF \A i \in 1..Len(node.types) : node.types[i] # "Product" THEN Null
      ELSE IF node.name = <<>> THEN Null
      ELSE IF /\ ~isLikelyProductDetailUrl(node.url)
              /\ ~(IsFiniteNumber(price) /\ price.v > 0) THEN Null
      ELSE Product(node.name, IF IsFiniteNumber(price) THEN price.v ELSE 0,
                   node.category, node.description, node.url, node.image)

\* the functions of the program are called on their own, each with every
\* argument of a bounded set
CallInit ==
  /\ Constructed(Procs)
  /\ SCRAPE_ENABLED = TRUE
  /\ SCRAPE_MAX_TIME_MS = 0
  /\ world = "w1"
  /\ cheerio = TRUE
  /\ catalog = "ok"
  \* products for the ranker: the three of the example, and more that
  \* differ in one key only or in none
  /\ \/ \E s \in SeqsUpTo({ Product(<<"x">>, 0, <<>>, <<>>, UC, NoImage),
                            Product(<<"y">>, 0, <<>>, <<>>, U1, NoImage),
                            Product(<<"z">>, 5, <<>>, <<>>, U2, NoImage),
                            Product(<<"w">>, 0, <<>>, <<>>, U1, NoImage),
                            Product(<<"z","z">>, 5, <<>>, <<>>, U2, NoImage),
                            Product(<<"v">>, 5, <<>>, <<>>, UC, NoImage) },
                          MaxItems) :
          call = Call("prioritizeProducts", s, <<>>)
     \* catalogs of different entries; parsed queries with and without a
     \* category, without a max price, with one that is not a number and
     \* with a numeric one
     \/ \E c \in {c \in SeqsUpTo(LocalPool, MaxCatalog) :
                     \A i, j \in 1..Len(c) : i # j => c[i] # c[j]},
           r \in [q : {Soap}, category : {<<>>, <<"s">>},
                  maxPrice : {Undefined, NaN, Num(1)},
                  limit : {Num(1), Num(2), Num(3)}] :
          call = Call("searchLocalProducts", [products |-> c, r |-> r], <<>>)
     \* the entries of LocalPool and one whose category alone holds the
     \* query word; queries without text, of one word, of the same word twice
     \/ \E e \in LocalPool
                   \cup {CatalogProduct(<<"G","e","l">>, 2, Soap, <<>>, <<>>, 4)},
           r \in [q : {<<>>, Soap, Soap \o <<" ">> \o Soap},
                  category : {<<>>, <<"s">>},
                  maxPrice : {Undefined, NaN, Num(1)}, limit : {Num(3)}] :
          call = Call("scoreLocal", [p |-> e, r |-> r], 0)
     \* paths over the marker, stop-terms (a plain one, one in capitals, one
     \* holding a keyword, one holding a digit) and other segments (a plain
     \* one, one with a digit, one with a keyword)
     \/ \E u \in SeqsUpTo({Marker, <<"s","h","o","p">>, <<"S","h","o","p">>,
                           <<"n","e","w","-","p","r","o","d","u","c","t","s">>,
                           <<"r","3">>, Soap, <<"s","k","u","1">>,
                           <<"i","t","e","m">>}, MaxSegs) :
          call = Call("isLikelyProductDetailUrl", u, FALSE)
     \/ \E node \in [types : {<<>>, <<"Product">>, <<"Thing", "Product">>,
                              <<"Offer">>},
                     name : {<<>>, NameSoap},
                     \* offers with their 'price' and the 'price' of their
                     \* priceSpecification: without a price, with a numeric
                     \* price above, at and below zero, with a price in a
                     \* string with and without digits, and with the price
                     \* in the price specification
                     offers : SeqsUpTo(
                       [price : {Undefined, Num(5), Num(0), Num(0 - 5),
                                 [t |-> "string", v |-> <<"1", ",", "2">>],
                                 [t |-> "string", v |-> <<"n", "a">>],
                                 [t |-> "string", v |-> <<"0">>]},
                        specPrice : {Undefined}]
                         \cup {[price |-> Undefined,
                                specPrice |-> [t |-> "string", v |-> <<"7">>]]},
                       MaxOffers),
                     url : {NoUrl, U1, UC},
                     category : {<<>>}, description : {<<>>},
                     image : {NoImage}] :
          call = Call("normalizeProductFromJSONLD", node, Null)
     \* the 'limit' parameter: absent, not a number, a number
     \/ \E param \in {ParamAbsent, [t |-> "junk"]}
                       \cup {ParamNum(n) : n \in (-1)..MaxLimitParam} :
          call = Call("limit", param, [limit |-> Undefined, items |-> <<>>])
     \* two parsed queries, each for one subsystem: a max price that is
     \* absent, not a number, zero, positive; a limit that is not a number
     \* or a number
     \/ \E a, b \in [subsystem : {"remote", "local"},
                      r : [q : {<<>>, Soap}, category : {<<>>, <<"s">>},
                           maxPrice : {Undefined, NaN, Num(0), Num(1)},
                           limit : {NaN, Num(1), Num(3)}]] :
          call = Call("cacheKey", <<a, b>>, <<>>)

\* prioritizeProducts(items)
CallPrioritize ==
  /\ call.fn = "prioritizeProducts"
  /\ ~call.done
  /\ call' = Returned(prioritizeProducts(call.arg))
  /\ UNCHANGED <<now, env, caches, served, failed, locals>>

\* line 660 and the truncation of lines 539 and 591, of a list longer than
\* any limit
CallLimit ==
  /\ call.fn = "limit"
  /\ ~call.done
  /\ call' = Returned([limit |-> ParseLimit(call.arg),
                       items |-> LimitFilter([i \in 1..(MaxLimitParam + 3) |-> i],
                                             ParseLimit(call.arg))])
  /\ UNCHANGED <<now, env, caches, served, failed, locals>>

\* lines 584-591 of searchLocalProducts
CallLocal ==
  /\ call.fn = "searchLocalProducts"
  /\ ~call.done
  /\ call' = Returned(LocalList(call.arg.products, call.arg.r))
  /\ UNCHANGED <<now, env, caches, served, failed, locals>>

\* lines 555-570
CallScore ==
  /\ call.fn = "scoreLocal"
  /\ ~call.done
  /\ call' = Returned(scoreLocal(call.arg.p, call.arg.r))
  /\ UNCHANGED <<now, env, caches, served, failed, locals>>

\* lines 304-326
CallLikely ==
  /\ call.fn = "isLikelyProductDetailUrl"
  /\ ~call.done
  /\ call' = Returned(isLikelyProductDetailUrl(call.arg))
  /\ UNCHANGED <<now, env, caches, served, failed, locals>>

\* lines 261-295
CallNormalize ==
  /\ call.fn = "normalizeProductFromJSONLD"
  /\ ~call.done
  /\ call' = Returned(normalizeProductFromJSONLD(call.arg))
  /\ UNCHANGED <<now, env, caches, served, failed, locals>>

\* lines 454 and 573: the keys of two queries
CallKey ==
  /\ call.fn = "cacheKey"
  /\ ~call.done
  /\ call' = Returned(<<CacheKey(call.arg[1].subsystem, call.arg[1].r),
                        CacheKey(call.arg[2].subsystem, call.arg[2].r)>>)
  /\ UNCHANGED <<now, env, caches, served, failed, locals>>

CallNext ==
  \/ CallKey
  \/ CallPrioritize
  \/ CallNormalize
  \/ CallLikely
  \/ CallLocal
  \/ CallScore
  \/ CallLimit

CallSpec ==
  CallInit /\ [][CallNext]_vars

(***************************************************************************)
(* Two requests for one query that overlap: the server handles a request   *)
(* while another awaits a fetch                                            *)
(***************************************************************************)
Overlapping ==
  {"h1", "h2"}

OverlapNext ==
  \/ Tick
  \/ \E p \in Overlapping :
       Request(p, [q |-> Soap, category |-> <<>>, max_price |-> ParamAbsent,
                   limit |-> ParamAbsent])
  \/ \E p \in Overlapping, ok \in BOOLEAN : PrimaryDone(p, ok)
  \/ \E p \in Overlapping, ok \in BOOLEAN : AltDone(p, ok)
  \/ \E p \in Overlapping, ok \in BOOLEAN : FhDone(p, ok)
  \/ \E p \in Overlapping, ok \in BOOLEAN : BingDone(p, ok)
  \/ \E p \in Overlapping, ok \in BOOLEAN : SmRootDone(p, ok)
  \/ \E p \in Overlapping, ok \in BOOLEAN : SmChildDone(p, ok)
  \/ \E p \in Overlapping, ok \in BOOLEAN : EnDone(p, ok)

OverlapSpec ==
  /\ Constructed(Overlapping)
  /\ SCRAPE_ENABLED = TRUE
  /\ SCRAPE_MAX_TIME_MS = 1
  /\ \E setup \in {<<"w1", TRUE, "ok">>, <<"w1", FALSE, "ok">>} :
       world = setup[1] /\ cheerio = setup[2] /\ catalog = setup[3]
  /\ call = NoCall
  /\ [][OverlapNext]_vars

(***************************************************************************)
(* The two loops that fetch detail pages, each called on its own           *)
(***************************************************************************)
\* the call, up to its first fetch or its return: lines 9-20, lines 358-368
LoopStart(p) ==
  /\ call.state = "pending"
  /\ Commit(p, Run(IF call.fn = "filterAndHydrateDetails"
                     THEN [Frame(p) EXCEPT
                             !.startTs = now,
                             !.fh = FhCall(call.arg.items, call.arg.limit,
                                           call.arg.maxFetch, "call"),
                             !.pc = "fh_loop"]
                     ELSE [Frame(p) EXCEPT
                             !.en = EnCall(call.arg.items, call.arg.maxFetch,
                                           "call"),
                             !.pc = "en_loop"]))
  /\ call' = [call EXCEPT !.state = "running"]
  /\ UNCHANGED <<now, env, served, failed>>

LoopNext ==
  \/ \E p \in Procs : LoopStart(p)
  \/ \E p \in Procs, ok \in BOOLEAN : FhDone(p, ok)
  \/ \E p \in Procs, ok \in BOOLEAN : EnDone(p, ok)
  \/ Tick

LoopSpec ==
  /\ Constructed(Procs)
  /\ SCRAPE_ENABLED = TRUE
  /\ SCRAPE_MAX_TIME_MS = 1
  /\ world = "w1"
  /\ cheerio = TRUE
  /\ catalog = "ok"
  /\ \E limit \in 1..MaxCap, maxFetch \in 1..MaxCap :
       \* candidates without a URL, with the URL of a category page and with
       \* those of detail pages
       \/ \E src \in SeqsUpTo({Candidate(u) : u \in {NoUrl, UC, U1, U1u, U2, U4}},
                              MaxItems) :
            call = [fn |-> "filterAndHydrateDetails",
                    arg |-> [items |-> src, limit |-> limit, maxFetch |-> maxFetch],
                    state |-> "pending"]
       \* records without description and price, and one with a price
       \/ \E list \in SeqsUpTo({Product(NameSoap, 0, <<>>, <<>>, u, NoImage) :
                                  u \in {UC, U1, U1u, U2, U4}}
                                 \cup {Product(NameBarB, 2, <<>>, <<>>, U2, NoImage)},
                               MaxItems) :
            call = [fn |-> "enrichFromDetailPages",
                    arg |-> [items |-> list, limit |-> limit, maxFetch |-> maxFetch],
                    state |-> "pending"]
  /\ [][LoopNext]_vars

\* every awaited fetch is over at some time: httpGet resolves, or rejects
\* after its timeout.  This is weak fairness of each step, with the
\* condition under which the step can be taken written as a state predicate.
FairLoopSpec ==
  /\ LoopSpec
  /\ \A p \in Procs :
       /\ <>[](call.state = "pending") => []<><<LoopStart(p)>>_vars
       /\ <>[](pc[p] = "w_fh") => []<><<\E ok \in BOOLEAN : FhDone(p, ok)>>_vars
       /\ <>[](pc[p] = "w_en") => []<><<\E ok \in BOOLEAN : EnDone(p, ok)>>_vars

(***************************************************************************)
(* httpGet on its own: one call against a site whose pages redirect        *)
(***************************************************************************)
\* the pages of a site
Pages ==
  {"a", "b", "c"}

\* lines 131-142: the response callback of the request for call.url
HttpResponse ==
  LET res == call.site[call.url]
  IN  /\ call.fn = "httpGet"
      /\ call.state = "pending"
      /\ IF res.status >= 300 /\ res.status < 400 /\ res.location # ""
           THEN /\ call.hops < MaxHops
                /\ call' = [call EXCEPT !.url = res.location,
                                        !.hops = call.hops + 1]
           ELSE call' = [call EXCEPT !.state =
                           IF res.status >= 200 /\ res.status < 300
                             THEN "resolved" ELSE "rejected"]
      /\ UNCHANGED <<now, env, caches, served, failed, locals>>

\* lines 144-147: the request times out or fails
HttpError ==
  /\ call.fn = "httpGet"
  /\ call.state = "pending"
  /\ call' = [call EXCEPT !.state = "rejected"]
  /\ UNCHANGED <<now, env, caches, served, failed, locals>>

HttpNext ==
  \/ HttpResponse
  \/ HttpError

HttpSpec ==
  /\ Constructed(Procs)
  /\ SCRAPE_ENABLED = TRUE
  /\ SCRAPE_MAX_TIME_MS = 0
  /\ world = "w1"
  /\ cheerio = TRUE
  /\ catalog = "ok"
  \* a page answers with a status and a Location header, "" without one
  /\ \E site \in [Pages -> [status : {200, 404, 302}, location : {""}]
                              \cup [status : {302}, location : Pages]],
        u \in Pages :
       call = [fn |-> "httpGet", site |-> site, url |-> u, hops |-> 0,
               state |-> "pending"]
  /\ [][HttpNext]_vars

(***************************************************************************)
(* Properties                                                              *)
(***************************************************************************)
\* the handler p takes the step that receives a request
Receives(p) ==
  pc[p] = "idle" /\ served' = served + 1

\* the handler p takes the step that sends its response
Answers(p) ==
  pc'[p] = "idle" /\ (pc[p] # "idle" \/ Receives(p))

\* C1: a call of searchRemoteProducts that finds, under the key of its query,
\* an entry with items and of age below SCRAPE_CACHE_TTL_MS returns the
\* entry's items with cached = true, starts no fetch, and leaves SEARCH_CACHE
\* and SITEMAP_CACHE as they are.
C1_CacheHitServed ==
  [][\A p \in Procs :
       LET key == CacheKey("remote", req'[p])
       IN  ( /\ Receives(p)
             /\ SCRAPE_ENABLED
             /\ key \in DOMAIN SEARCH_CACHE
             /\ Len(SEARCH_CACHE[key].items) > 0
             /\ (now - SEARCH_CACHE[key].ts) < SCRAPE_CACHE_TTL_MS )
           => /\ remote'[p].items = SEARCH_CACHE[key].items
              /\ remote'[p].cached = TRUE
              /\ pc'[p] \notin Wait
              /\ inflight'[p] = NoFetch
              /\ SEARCH_CACHE' = SEARCH_CACHE
              /\ SITEMAP_CACHE' = SITEMAP_CACHE]_vars

\* a request was answered from the fresh entry of its key
C1_Witness ==
  \E p \in Procs :
    /\ pc[p] = "idle"
    /\ remote[p].cached
    /\ Len(remote[p].items) > 0
    /\ CacheKey("remote", req[p]) \in DOMAIN SEARCH_CACHE
    /\ remote[p].items = SEARCH_CACHE[CacheKey("remote", req[p])].items
    /\ resp[p].status = 200
    /\ resp[p].cached

\* C2: no lookup serves an entry whose age has reached its TTL.  The remote
\* and the local search answer cached = true only from an entry of age below
\* SCRAPE_CACHE_TTL_MS, the sitemap stage works from the stored URLs without
\* fetching only when the slot's age is below SITEMAP_CACHE_TTL_MS, and a
\* lookup that finds an entry of age at or beyond the TTL computes anew.
C2_NoStaleEntryServed ==
  [][\A p \in Procs :
       LET rkey == CacheKey("remote", req'[p])
           lkey == CacheKey("local", req'[p])
           local == /\ Answers(p)
                    /\ resp'[p].status = 200
                    /\ resp'[p].source = "local"
       IN  /\ (Receives(p) /\ remote'[p].cached)
                => /\ rkey \in DOMAIN SEARCH_CACHE
                   /\ (now - SEARCH_CACHE[rkey].ts) < SCRAPE_CACHE_TTL_MS
           /\ ( /\ Receives(p)
                /\ SCRAPE_ENABLED
                /\ rkey \in DOMAIN SEARCH_CACHE
                /\ (now - SEARCH_CACHE[rkey].ts) >= SCRAPE_CACHE_TTL_MS )
                => /\ pc'[p] = "w_primary"
                   /\ ~remote'[p].cached
           /\ (local /\ resp'[p].cached)
                => /\ lkey \in DOMAIN SEARCH_CACHE
                   /\ (now - SEARCH_CACHE[lkey].ts) < SCRAPE_CACHE_TTL_MS
                   /\ resp'[p].items = SEARCH_CACHE[lkey].items
           /\ ( /\ local
                /\ lkey \in DOMAIN SEARCH_CACHE
                /\ (now - SEARCH_CACHE[lkey].ts) >= SCRAPE_CACHE_TTL_MS )
                => /\ ~resp'[p].cached
                   /\ SEARCH_CACHE'[lkey].ts = now
           /\ ( /\ fh'[p].ret = "sitemap"
                /\ fh[p].ret # "sitemap"
                /\ pc[p] \notin {"w_smroot", "w_smchild"} )
                => /\ (now - SITEMAP_CACHE.ts) < SITEMAP_CACHE_TTL_MS
                   /\ \A i \in 1..Len(fh'[p].src) :
                        fh'[p].src[i].url \in Range(SITEMAP_CACHE.urls)
           /\ ( /\ pc'[p] \in {"w_smroot", "w_smchild"}
                /\ pc[p] \notin {"w_smroot", "w_smchild"} )
                => /\ pc'[p] = "w_smroot"
                   /\ \/ Len(SITEMAP_CACHE.urls) = 0
                      \/ (now - SITEMAP_CACHE.ts) >= SITEMAP_CACHE_TTL_MS]_vars

\* a query fetches anew although its key holds an entry, because the entry's
\* age had reached the TTL at the lookup
C2_Witness ==
  \E p \in Procs :
    /\ pc[p] = "w_primary"
    /\ CacheKey("remote", req[p]) \in DOMAIN SEARCH_CACHE
    /\ (startTs[p] - SEARCH_CACHE[CacheKey("remote", req[p])].ts)
         >= SCRAPE_CACHE_TTL_MS

\* C3: SEARCH_CACHE never holds an entry without items under a 'remote' key: a
\* run of searchRemoteProducts that ends with no items leaves the 'remote'
\* entries as they are, and a query whose key holds no entry starts the
\* primary fetch.
C3_EmptyRemoteNotCached ==
  [][\A p \in Procs :
       /\ \A k \in DOMAIN SEARCH_CACHE' :
            k[1] = "remote" => Len(SEARCH_CACHE'[k].items) > 0
       /\ (Answers(p) /\ Len(remote'[p].items) = 0)
            => \A k \in DOMAIN SEARCH_CACHE' :
                 k[1] = "remote"
                   => k \in DOMAIN SEARCH_CACHE /\ SEARCH_CACHE'[k] = SEARCH_CACHE[k]
       /\ ( /\ Receives(p)
            /\ SCRAPE_ENABLED
            /\ CacheKey("remote", req'[p]) \notin DOMAIN SEARCH_CACHE )
            => pc'[p] = "w_primary"]_vars

\* the second of two identical queries fetches again: the first one was
\* answered from the local catalog (its local entry is there), and left
\* nothing under the remote key
C3_Witness ==
  \E p \in Procs :
    /\ pc[p] = "w_primary"
    /\ served = 2
    /\ CacheKey("local", req[p]) \in DOMAIN SEARCH_CACHE
    /\ CacheKey("remote", req[p]) \notin DOMAIN SEARCH_CACHE

\* C4: with a budget of 0 ms a query starts no fetch at all.
C4_ZeroBudgetNoFetch ==
  SCRAPE_MAX_TIME_MS = 0 => \A p \in Procs : pc[p] \notin Wait

\* C5: with remote discovery disabled a query starts no fetch, SEARCH_CACHE
\* gets no 'remote' entry, SITEMAP_CACHE stays as constructed, and the answer
\* comes from searchLocalProducts with source 'local'.
C5_DisabledAnswersLocal ==
  ~SCRAPE_ENABLED =>
    /\ \A p \in Procs : pc[p] \notin Wait
    /\ \A k \in DOMAIN SEARCH_CACHE : k[1] # "remote"
    /\ SITEMAP_CACHE = [ts |-> 0, urls |-> <<>>]
    /\ \A p \in Procs :
         resp[p] # NoResp => (resp[p].status = 200 /\ resp[p].source = "local")

\* the handler p takes a step that calls httpGet
FetchStarts(p) ==
  /\ inflight'[p] # NoFetch
  /\ <<pc[p], inflight[p], fh[p], sm[p], en[p]>>
       # <<pc'[p], inflight'[p], fh'[p], sm'[p], en'[p]>>

\* C6: no fetch of a query starts once more than SCRAPE_MAX_TIME_MS has
\* elapsed since the query's start.
C6_NoFetchAfterBudget ==
  [][\A p \in Procs :
       FetchStarts(p) => (now' - startTs'[p]) <= SCRAPE_MAX_TIME_MS]_vars

\* C7: every request is answered with source 'web' exactly when
\* searchRemoteProducts returned items, and with source 'local' and the items
\* of searchLocalProducts otherwise.
C7_SourceWebOrLocal ==
  \A p \in Procs :
    resp[p] # NoResp
      => /\ resp[p].status = 200
         /\ resp[p].source \in {"web", "local"}
         /\ resp[p].source = "web" <=> Len(remote[p].items) > 0
         /\ resp[p].source = "web" => resp[p].items = remote[p].items

\* the filters of the request r hold of list
SatisfiesFilters(list, r) ==
  /\ IsFiniteNumber(r.maxPrice)
       => \A i \in 1..Len(list) : list[i].price <= r.maxPrice.v
  /\ r.category # <<>>
       => \A i \in 1..Len(list) :
            \/ Includes(ToLower(list[i].category), ToLower(r.category))
            \/ Includes(ToLower(list[i].name), ToLower(r.category))
  /\ Truthy(r.limit) => Len(list) <= r.limit.v

\* C8: the items searchRemoteProducts returns with cached = false, and those
\* it stores, satisfy the price ceiling, the category and the limit of the
\* request.
C8_ResultSatisfiesFilters ==
  \A p \in Procs :
    (resp[p] # NoResp /\ ~remote[p].cached)
      => /\ SatisfiesFilters(remote[p].items, req[p])
         /\ Len(remote[p].items) > 0
              => SatisfiesFilters(SEARCH_CACHE[CacheKey("remote", req[p])].items,
                                  req[p])

\* C9: the items searchRemoteProducts returns hold no two products whose URLs
\* are equal up to letter case.
C9_NoDuplicateUrls ==
  \A p \in Procs :
    resp[p] # NoResp
      => \A i, j \in 1..Len(remote[p].items) :
           i < j => LowerUrl(remote[p].items[i].url) # LowerUrl(remote[p].items[j].url)

\* C10: the items searchRemoteProducts returns are in the order of the
\* ranker: no item is followed by one that the comparison puts before it.
C10_ResultRanked ==
  \A p \in Procs :
    resp[p] # NoResp
      => \A i \in 1..(Len(remote[p].items) - 1) :
           RankCompare(remote[p].items[i], remote[p].items[i + 1]) <= 0

\* C11: whichever fetches of a query fail, the handler does not issue the
\* failed fetch again (its next fetch is another one, and a verification
\* never fetches a URL it has visited), and the request is answered with
\* status 200 from 'web' or 'local', never with 500.
C11_FailuresAbsorbed ==
  [][\A p \in Procs :
       /\ (pc[p] \in Wait /\ failed' = failed + 1) => inflight'[p] # inflight[p]
       /\ (pc[p] = "w_fh" /\ FetchStarts(p) /\ pc'[p] = "w_fh"
             /\ fh'[p].ret = fh[p].ret)
            => inflight'[p].url \notin fh[p].visited
       /\ Answers(p)
            => /\ resp'[p].status = 200
               /\ resp'[p].source \in {"web", "local"}]_vars

\* C12: whatever products.json holds, searchLocalProducts returns a list and
\* the request it serves is answered with status 200 and source 'local'; with
\* a document that is unreadable or whose 'products' is not a list the
\* catalog counts as empty and the list is empty.
C12_CatalogTolerated ==
  \A p \in Procs :
    (resp[p] # NoResp /\ Len(remote[p].items) = 0)
      => /\ resp[p].status = 200
         /\ resp[p].source = "local"
         /\ catalog # "ok" => resp[p].items = <<>>

\* C17: prioritizeProducts returns the elements of its input, each once,
\* detail-likely URLs before the others, then positive prices before the
\* others, then longer names before shorter ones, and elements equal on the
\* three keys in their input order; the example [A, B, C] yields [C, B, A].
C17_RankerOrder ==
  (call.fn = "prioritizeProducts" /\ call.done) =>
    LET s == call.arg
        out == call.ret
        n == Len(s)
        Detail(p) == isLikelyProductDetailUrl(p.url)
        Priced(p) == p.price > 0
        Before(a, b) ==
          \/ Detail(a) /\ ~Detail(b)
          \/ Detail(a) = Detail(b) /\ Priced(a) /\ ~Priced(b)
          \/ Detail(a) = Detail(b) /\ Priced(a) = Priced(b)
               /\ Len(a.name) > Len(b.name)
    IN  /\ Len(out) = n
        /\ \E f \in [1..n -> 1..n] :
             /\ \A i, j \in 1..n : i # j => f[i] # f[j]
             /\ \A i \in 1..n : out[i] = s[f[i]]
             /\ \A i, j \in 1..n :
                  i < j => \/ Before(out[i], out[j])
                           \/ ~Before(out[j], out[i]) /\ f[i] < f[j]
        /\ s = << Product(<<"x">>, 0, <<>>, <<>>, UC, NoImage),
                  Product(<<"y">>, 0, <<>>, <<>>, U1, NoImage),
                  Product(<<"z">>, 5, <<>>, <<>>, U2, NoImage) >>
             => out = << s[3], s[2], s[1] >>

\* the ranker has reordered the example, and has kept two products equal on
\* the three keys in their input order
C17_Witness ==
  /\ call.fn = "prioritizeProducts"
  /\ call.done
  /\ call.arg = << Product(<<"x">>, 0, <<>>, <<>>, UC, NoImage),
                   Product(<<"y">>, 0, <<>>, <<>>, U1, NoImage),
                   Product(<<"z">>, 5, <<>>, <<>>, U2, NoImage) >>
  /\ call.ret = << call.arg[3], call.arg[2], call.arg[1] >>

\* C13: whatever the 'limit' parameter is, the limit the handler passes on
\* is a number from 1 to 20, 3 when the parameter is absent, and the
\* truncation by it leaves at most that many items.
C13_LimitClamped ==
  (call.fn = "limit" /\ call.done) =>
    /\ call.ret.limit.t = "number"
    /\ call.ret.limit.v >= 1
    /\ call.ret.limit.v <= 20
    /\ call.arg = ParamAbsent => call.ret.limit.v = 3
    /\ Len(call.ret.items) <= call.ret.limit.v

\* C14: one call of httpGet follows at most ten redirects, whatever the
\* Location headers of the site are.
C14_RedirectsBounded ==
  call.fn = "httpGet" => call.hops <= 10

\* C15: the list searchLocalProducts computes holds only catalog entries
\* whose price is within the max price when one is given and whose category
\* is the requested one up to letter case when one is given; it is in
\* descending order of scoreLocal, entries of equal score in catalog order;
\* and it is the first 'limit' entries of the entries so ordered.
C15_LocalListOrdered ==
  (call.fn = "searchLocalProducts" /\ call.done) =>
    LET products == call.arg.products
        r == call.arg.r
        out == call.ret
        Pass(p) ==
          /\ r.maxPrice # Undefined
               => (r.maxPrice.t = "number" /\ p.price <= r.maxPrice.v)
          /\ r.category # <<>> => ToLower(p.category) = ToLower(r.category)
        passing == {i \in 1..Len(products) : Pass(products[i])}
        Ahead(i, j) ==
          \/ scoreLocal(products[i], r) > scoreLocal(products[j], r)
          \/ scoreLocal(products[i], r) = scoreLocal(products[j], r) /\ i < j
    IN  \E f \in [1..Len(out) -> passing] :
          /\ \A k \in 1..Len(out) : out[k] = products[f[k]]
          /\ \A k, l \in 1..Len(out) : k < l => Ahead(f[k], f[l])
          /\ Len(out) = Min(r.limit.v, Cardinality(passing))
          /\ \A i \in passing :
               (\A k \in 1..Len(out) : f[k] # i)
                 => \A k \in 1..Len(out) : Ahead(f[k], i)

\* a catalog of three entries was filtered by category, its two entries of
\* equal score were kept in catalog order, and the list was cut
C15_Witness ==
  /\ call.fn = "searchLocalProducts"
  /\ call.done
  /\ Len(call.arg.products) = 3
  /\ call.arg.r.category # <<>>
  /\ Len(call.ret) = 2
  /\ call.arg.r.limit.v = 2
  /\ scoreLocal(call.ret[1], call.arg.r) = scoreLocal(call.ret[2], call.arg.r)
  /\ \E i \in 1..3 : call.arg.products[i] \notin Range(call.ret)

\* C16: five times the score scoreLocal gives an entry is 10 for each
\* distinct token of the query that occurs in the entry's name, description
\* and tags joined (and in nothing else), 15 if the whole lower-cased query
\* occurs there, 10 if the entry's category is the requested one, 5 if a max
\* price is given and the price is within it, plus the rating.
C16_ScoreIsReference ==
  (call.fn = "scoreLocal" /\ call.done) =>
    LET p == call.arg.p
        r == call.arg.r
        text == ToLower(p.name) \o <<" ">> \o ToLower(p.description) \o <<" ">>
                  \o Join([i \in 1..Len(p.tags) |-> ToLower(p.tags[i])], <<" ">>)
        qq == ToLower(r.q)
        distinct == {Tokens(qq)[i] : i \in 1..Len(Tokens(qq))}
    IN  call.ret =
          10 * Cardinality({tok \in distinct : Includes(text, tok)})
          + (IF qq # <<>> /\ Includes(text, qq) THEN 15 ELSE 0)
          + (IF r.category # <<>> /\ ToLower(p.category) = ToLower(r.category)
               THEN 10 ELSE 0)
          + (IF r.maxPrice.t = "number" /\ p.price <= r.maxPrice.v
               THEN 5 ELSE 0)
          + p.rating

\* C18: isLikelyProductDetailUrl answers from the path segments alone. With
\* 'rest' the segments after the first 'productstore' segment, the answer is
\* false when the marker is absent, when rest has fewer than two segments and
\* when every segment of rest is a stop-term; otherwise it is true when a
\* segment of rest holds a detail keyword; otherwise true when rest has three
\* or more segments; otherwise true exactly when a segment of rest holds a
\* digit.
C18_ClassifierRule ==
  (call.fn = "isLikelyProductDetailUrl" /\ call.done) =>
    LET parts == [i \in 1..Len(call.arg) |-> ToLower(call.arg[i])]
        marked == {i \in 1..Len(parts) : parts[i] = Marker}
        first == CHOOSE i \in marked : \A j \in marked : i <= j
        rest == SubSeq(parts, first + 1, Len(parts))
        segs == {rest[i] : i \in 1..Len(rest)}
        Holds(seg, word) ==
          \E a, b \in 0..Len(seg) : a < b /\ SubSeq(seg, a + 1, b) = word
        keyword == \E seg \in segs, k \in 1..Len(Keywords) :
                     Holds(seg, Keywords[k])
        digit == \E seg \in segs : \E i \in 1..Len(seg) : seg[i] \in Digits
    IN  /\ marked = {} => call.ret = FALSE
        /\ marked # {} =>
             /\ Len(rest) < 2 => call.ret = FALSE
             /\ segs \subseteq STOPWORDS => call.ret = FALSE
             /\ (Len(rest) >= 2 /\ ~(segs \subseteq STOPWORDS)) =>
                  /\ keyword => call.ret = TRUE
                  /\ (~keyword /\ Len(rest) >= 3) => call.ret = TRUE
                  /\ (~keyword /\ Len(rest) < 3) => call.ret = digit

\* a path whose two segments after the marker are stop-terms, one of them
\* holding a keyword and the other a digit, was answered with false
C18_Witness ==
  /\ call.fn = "isLikelyProductDetailUrl"
  /\ call.done
  /\ call.arg = <<Marker, <<"n","e","w","-","p","r","o","d","u","c","t","s">>,
                  <<"r","3">>>>
  /\ call.ret = FALSE

\* C19: normalizeProductFromJSONLD returns null for a node whose @type does
\* not include 'Product', for a node without a name, and for a node that has
\* neither a positive parsed offer price nor a detail-likely url; for every
\* other node it returns a product with the node's name whose price is the
\* parsed positive price, or 0.
C19_NormalizeRule ==
  (call.fn = "normalizeProductFromJSONLD" /\ call.done) =>
    LET node == call.arg
        price == OfferPrice(node.offers, 1)
        positive == price.t = "number" /\ price.v > 0
        rejected ==
          \/ "Product" \notin {node.types[i] : i \in 1..Len(node.types)}
          \/ node.name = <<>>
          \/ ~positive /\ ~isLikelyProductDetailUrl(node.url)
    IN  /\ rejected => call.ret = Null
        /\ ~rejected =>
             /\ call.ret # Null
             /\ call.ret.name = node.name
             /\ call.ret.price = (IF positive THEN price.v ELSE 0)

\* C20: searchRemoteProducts fetches the alternate search URL only after a
\* primary stage that produced no candidate or none with a detail-likely URL,
\* and only within the budget; the candidate list and the reported source URL
\* become those of the alternate run when that run yields a candidate with a
\* detail-likely URL, and otherwise stay as the primary stage left them.
C20_AlternateStage ==
  [][\A p \in Procs :
       /\ (pc'[p] = "w_alt" /\ pc[p] # "w_alt") =>
            /\ pc[p] = "w_primary"
            /\ inflight'[p].kind = "alt"
            /\ items'[p] = (IF failed' # failed THEN <<>>
                            ELSE parseProductsFromHTML(web.primary))
            /\ \A i \in 1..Len(items'[p]) :
                 ~isLikelyProductDetailUrl(items'[p][i].url)
            /\ now - startTs[p] <= SCRAPE_MAX_TIME_MS
            /\ usedUrl'[p] = usedUrl[p]
       /\ (inflight'[p].kind = "alt" /\ inflight[p].kind # "alt")
            => pc'[p] = "w_alt"
       /\ (pc[p] = "w_alt" /\ pc'[p] \in Wait \ {"w_alt"}) =>
            LET parsed == parseProductsFromHTML(web.alt)
                yields ==
                  /\ failed' = failed
                  /\ \E i \in 1..Len(parsed) :
                       isLikelyProductDetailUrl(parsed[i].url)
            IN  /\ yields => (items'[p] = parsed /\ usedUrl'[p] = UrlAlt(req[p].q))
                /\ ~yields => (items'[p] = items[p] /\ usedUrl'[p] = usedUrl[p])
                /\ (pc'[p] = "w_fh" /\ fh'[p].ret = "main")
                     => fh'[p].src = items'[p]]_vars

\* the alternate page replaced the candidates of a primary stage that had
\* none, and its first candidate is being verified
C20_Witness ==
  \E p \in Procs :
    /\ pc[p] = "w_fh"
    /\ fh[p].ret = "main"
    /\ usedUrl[p] = UrlAlt(req[p].q)
    /\ items[p] = parseProductsFromHTML(web.alt)
    /\ fh[p].src = items[p]

\* C21: within one query the fetches follow the order primary, alternate,
\* verification, Bing fallback, sitemap fallback; a fetch of the Bing
\* fallback starts only when the verification kept nothing, and a fetch of
\* the sitemap fallback only when the verification and the Bing fallback
\* both produced nothing.
C21_StageOrder ==
  [][\A p \in Procs :
       LET Rank(at, ret) ==
             CASE at = "w_primary" -> 1
             []   at = "w_alt" -> 2
             []   at = "w_fh" /\ ret = "main" -> 3
             []   at = "w_bing" \/ (at = "w_fh" /\ ret = "bing") -> 4
             []   at \in {"w_smroot", "w_smchild"}
                    \/ (at = "w_fh" /\ ret = "sitemap") -> 5
             []   OTHER -> 6
           before == IF pc[p] = "idle" THEN 0 ELSE Rank(pc[p], fh[p].ret)
           after == Rank(pc'[p], fh'[p].ret)
       IN  (pc'[p] \in Wait /\ FetchStarts(p)) =>
             /\ before <= after
             /\ before = 0 => after = 1
             /\ (after = 4 /\ before < 4) =>
                  /\ verified'[p] = <<>>
                  /\ pc[p] = "w_fh" => fh[p].keep = <<>>
             /\ (after = 5 /\ before < 5) =>
                  /\ verified'[p] = <<>>
                  /\ via'[p] = <<>>
                  /\ pc[p] = "w_fh" => fh[p].keep = <<>>]_vars

\* a query whose verification and Bing fallback produced nothing is
\* verifying a candidate of the sitemap
C21_Witness ==
  \E p \in Procs :
    /\ pc[p] = "w_fh"
    /\ fh[p].ret = "sitemap"
    /\ verified[p] = <<>>
    /\ via[p] = <<>>
    /\ cheerio

\* C22: one call filterAndHydrateDetails(items, limit, maxFetch, startTs)
\* with limit >= 1 starts at most maxFetch fetches, fetches no URL twice and
\* only detail-likely URLs, keeps at most limit products, and starts no
\* fetch once limit products are kept, maxFetch fetches were started or the
\* budget is exceeded.
C22_HydrateBounded ==
  [][\A p \in Procs :
       LET n == Len(fetched'[p])
       IN  call.fn = "filterAndHydrateDetails" =>
           /\ n <= call.arg.maxFetch
           /\ \A i, j \in 1..n : i # j => fetched'[p][i] # fetched'[p][j]
           /\ \A i \in 1..n : /\ fetched'[p][i].kind = "detail"
                              /\ isLikelyProductDetailUrl(fetched'[p][i].url)
           /\ Len(fh'[p].keep) <= call.arg.limit
           /\ Len(verified'[p]) <= call.arg.limit
           /\ n > Len(fetched[p]) =>
                /\ Len(fh'[p].keep) < call.arg.limit
                /\ Len(fetched[p]) < call.arg.maxFetch
                /\ now - startTs'[p] <= SCRAPE_MAX_TIME_MS]_vars

\* a call returned after it had started as many fetches as its cap allows,
\* with candidates left over
C22_Witness ==
  \E p \in Procs :
    /\ call.fn = "filterAndHydrateDetails"
    /\ call.state = "running"
    /\ pc[p] = "idle"
    /\ Len(fetched[p]) = call.arg.maxFetch
    /\ call.arg.maxFetch = 2
    /\ Len(verified[p]) = 1
    /\ Len(call.arg.items) = 3
    /\ \A i \in 1..3 : isLikelyProductDetailUrl(call.arg.items[i].url)
    /\ \A i, j \in 1..3 : i # j => call.arg.items[i] # call.arg.items[j]

\* C23: every product searchRemoteProducts returns with cached = false
\* carries the name of a fetched page whose structured data normalized to a
\* product, and has a URL that isLikelyProductDetailUrl classifies as a
\* detail page.
C23_ResultVerified ==
  \A p \in Procs :
    (resp[p] # NoResp /\ ~remote[p].cached)
      => \A i \in 1..Len(remote[p].items) :
           /\ isLikelyProductDetailUrl(remote[p].items[i].url)
           /\ \E u \in DOMAIN web.detail :
                /\ web.detail[u] # Null
                /\ remote[p].items[i].name = web.detail[u].name


\* C24: two queries that differ in subsystem, term, category, max price or
\* limit (a max price that is absent, zero or not a number and a limit that
\* is not a number included) never have the same SEARCH_CACHE key.
C24_KeySeparates ==
  (call.fn = "cacheKey" /\ call.done /\ call.ret[1] = call.ret[2])
    => call.arg[1] = call.arg[2]

\* C25: no SEARCH_CACHE entry, remote or local, holds an empty item list,
\* and no response served from the cache is an empty list.
C25_NoEmptyEntry ==
  /\ \A k \in DOMAIN SEARCH_CACHE : Len(SEARCH_CACHE[k].items) > 0
  /\ \A p \in Procs :
       (resp[p] # NoResp /\ resp[p].status = 200 /\ resp[p].cached)
         => Len(resp[p].items) > 0

\* C28: a call of fetchSitemapUrls whose download of sitemap.xml fails
\* leaves the URL set and the timestamp of SITEMAP_CACHE as they were.
C28_FailedDownloadKeepsSlot ==
  [][\A p \in Procs :
       (pc[p] = "w_smroot" /\ pc'[p] # "w_smroot" /\ failed' = failed + 1)
         => SITEMAP_CACHE' = SITEMAP_CACHE]_vars

\* C29: enrichFromDetailPages fetches the page of a record only when the
\* record has a detail-likely URL, no description, no positive price and no
\* http image; the page it fetches is the one at the record's URL, also
\* when filterAndHydrateDetails fetched that URL earlier in the query.
C29_EnrichFetchesThin ==
  [][\A p \in Procs :
       (pc'[p] = "w_en" /\ FetchStarts(p)) =>
         LET c == en'[p].out[en'[p].i]
         IN  /\ inflight'[p] = [kind |-> "enrich", url |-> c.url]
             /\ isLikelyProductDetailUrl(c.url)
             /\ c.description = <<>>
             /\ c.price = 0
             /\ HasBasics(c) = "thin"]_vars

\* enrichFromDetailPages awaits the page filterAndHydrateDetails fetched
\* earlier in the same query
C29_Witness ==
  \E p \in Procs :
    /\ pc[p] = "w_en"
    /\ inflight[p].kind = "enrich"
    /\ \E i \in 1..(Len(fetched[p]) - 1) :
         fetched[p][i] = [kind |-> "detail", url |-> inflight[p].url]
    /\ \E i \in 1..Len(items[p]) :
         /\ items[p][i].url = inflight[p].url
         /\ items[p][i].name = web.detail[inflight[p].url].name

\* C26: the timestamp of every SEARCH_CACHE entry and of SITEMAP_CACHE is
\* the time at which it was written, and a write never lowers the timestamp
\* stored for its key.
C26_TimestampOfInsertion ==
  [][/\ \A k \in DOMAIN SEARCH_CACHE' :
          (k \notin DOMAIN SEARCH_CACHE \/ SEARCH_CACHE'[k] # SEARCH_CACHE[k])
            => /\ SEARCH_CACHE'[k].ts = now
               /\ k \in DOMAIN SEARCH_CACHE
                    => SEARCH_CACHE'[k].ts >= SEARCH_CACHE[k].ts
     /\ SITEMAP_CACHE' # SITEMAP_CACHE
          => /\ SITEMAP_CACHE'.ts = now
             /\ SITEMAP_CACHE'.ts >= SITEMAP_CACHE.ts]_vars

\* C27: a query that finds no fresh entry starts its own fetches, also while
\* another query with the same signature awaits its own; and whenever the
\* SEARCH_CACHE entry of a remote key is written, the handler that ended its
\* query in that step wrote it, with the complete item list and the source
\* URL that its searchRemoteProducts returns.
C27_EntryIsOneQuerysResult ==
  [][/\ \A p \in Overlapping :
          (/\ pc[p] = "idle"
           /\ served' = served + 1
           /\ fetched'[p] # fetched[p] \/ resp'[p] # resp[p]
           /\ ~RemoteCacheHit(SEARCH_CACHE, CacheKey("remote", req'[p]), now))
            => /\ pc'[p] = "w_primary"
               /\ fetched'[p] = <<inflight'[p]>>
     /\ \A k \in DOMAIN SEARCH_CACHE' :
          (k[1] = "remote"
             /\ (k \notin DOMAIN SEARCH_CACHE \/ SEARCH_CACHE'[k] # SEARCH_CACHE[k]))
            => \E p \in Overlapping :
                 /\ pc[p] \in Wait
                 /\ pc'[p] = "idle"
                 /\ k = CacheKey("remote", req[p])
                 /\ ~remote'[p].cached
                 /\ SEARCH_CACHE'[k].items = remote'[p].items
                 /\ SEARCH_CACHE'[k].url = remote'[p].url
                 /\ resp'[p].items = remote'[p].items]_vars

\* within one tick two queries for one key ran their own fetches, the first
\* to finish stored its list of two, and the other replaced the entry with
\* its own, different list
C27_Witness ==
  \E p, q \in Overlapping :
    /\ p # q
    /\ now = 0
    /\ pc[p] = "idle" /\ pc[q] = "idle"
    /\ req[p] = req[q]
    /\ resp[p] # NoResp /\ resp[q] # NoResp
    /\ ~remote[p].cached /\ ~remote[q].cached
    /\ Len(fetched[p]) > 0 /\ Len(fetched[q]) > 0
    /\ Len(remote[p].items) = 2
    /\ Len(remote[q].items) > 0
    /\ remote[p].items # remote[q].items
    /\ SEARCH_CACHE[CacheKey("remote", req[q])].items = remote[q].items

\* C30: provided every awaited fetch is over at some time, a loop that
\* fetches detail pages returns, and it starts no more fetches than its cap:
\* maxFetch for filterAndHydrateDetails, and for enrichFromDetailPages the cap
\* it is called with (4 in a query).
C30_BoundedAndAnswers ==
  /\ [][\A p \in Procs : Len(fetched'[p]) <= call.arg.maxFetch]_vars
  /\ \A p \in Procs :
       (call.state = "pending") ~> (call.state = "running" /\ pc[p] = "idle")

====
